---------------------------- MODULE Spec2Model ----------------------------
(***************************************************************************)
(* A model of the story-file to component-registry pipeline:               *)
(*   - StorybookParser      (src/src/parser/file-discovery.ts)             *)
(*   - DependencyAnalyzer   (src/unnamed/part_002)                         *)
(*   - ComponentAnalyzer    (src/src/generator/component-analyzer.ts)      *)
(*   - RegistryGenerator    (src/src/generator/registry-generator.ts)      *)
(*   - the zod schemas      (src/src/config/schemas.ts)                    *)
(*   - SyncOrchestrator     (src/src/analyzer/sync-orchestrator.ts)        *)
(* Strings whose characters the code inspects are sequences of one-        *)
(* character strings; every other string is an atom.                       *)
(***************************************************************************)
EXTENDS Integers, Sequences, FiniteSets, TLC

VARIABLES
    \* DependencyAnalyzer.findCircularDependencies
    graph,          \* the Map<string, DependencyInfo[]>: keys in insertion order, deps per file
    visited,        \* const visited = new Set<string>()
    recursionStack, \* const recursionStack = new Set<string>()
    cycles,         \* const cycles: string[][]
    frames,         \* the call stack of dfs: <<[file, path, next]>>, innermost last
    keyIdx,         \* position of the outer for-loop over graph.keys()
    expanded,       \* how often each file entered the body of dfs (its dependency loop)
    cyPc,           \* "idle" | "run" | "done"
    \* DependencyAnalyzer.analyzeDependencies
    imports,        \* what extractImports returned
    impIdx,         \* position of the for-loop over imports
    dependencies,   \* const dependencies: DependencyInfo[]
    dropped,        \* the specifiers for which analyzeDependency returned null
    depPc,          \* "idle" | "run" | "done"
    \* ComponentAnalyzer.analyzeComplexity
    cxFile,         \* the story file analysed and what the file system holds for it
    complexity,     \* the ComponentComplexity returned
    cxPc,           \* "idle" | "run" | "done"
    \* RegistryGenerator.determineItemType
    tyStoryFile,    \* the ParsedStoryFile: filePath and dependencies
    tyAnalysis,     \* the ComponentAnalysis passed, if any
    tyRules,        \* config.mapping.componentTypeRules
    tyResult,       \* the RegistryItemType returned
    tyPc,           \* "idle" | "run" | "done"
    \* RegistryItemSchema.safeParse
    scItem,         \* the value handed to safeParse
    scResult,       \* "" | "success" | "failure"
    scPc,           \* "idle" | "run" | "done"
    \* a call of one of the pure helpers
    callee,         \* the function called
    args,           \* the arguments of the call
    returned,       \* the value returned
    callPc,         \* "idle" | "run" | "done"
    \* SyncOrchestrator.sync and StorybookParser.parseStoryFiles
    op,             \* the operation called: "sync" | "parseStoryFiles"
    storyFiles,     \* the paths discovered (sync) or passed (parseStoryFiles)
    tsIsExportEquals, \* node.isExportEquals of an `export default`: "false" | "undefined"
    options,        \* the options of the call, with the configuration in force
    ioFailure,      \* the step the file system refuses:
                    \*   "none" | "discover" | "write" | "examples"
    pc,             \* position in the operation
    fileIdx,        \* position of the parse loop in storyFiles
    parsedFiles,    \* sync: const parsedFiles
    parseErrors,    \* sync: const parseErrors
    results,        \* parseStoryFiles: const results
    errors,         \* parseStoryFiles: const errors
    stats,          \* sync: const stats
    analyses,       \* sync: const analyses
    registryItems,  \* generateRegistry: registry.items
    written,        \* the documents written, in order
    outcome         \* what the operation returned or threw

cycleVars == <<graph, visited, recursionStack, cycles, frames, keyIdx, expanded, cyPc>>
depVars == <<imports, impIdx, dependencies, dropped, depPc>>
cxVars == <<cxFile, complexity, cxPc>>
tyVars == <<tyStoryFile, tyAnalysis, tyRules, tyResult, tyPc>>
scVars == <<scItem, scResult, scPc>>
callVars == <<callee, args, returned, callPc>>
pipeVars == <<op, storyFiles, tsIsExportEquals, options, ioFailure, pc, fileIdx,
              parsedFiles, parseErrors, results, errors, stats, analyses,
              registryItems, written, outcome>>

-----------------------------------------------------------------------------
(* String helpers (JavaScript's String.prototype methods on char sequences) *)

StartsWith(s, p) == Len(p) <= Len(s) /\ SubSeq(s, 1, Len(p)) = p

Includes(s, sub) ==
    /\ Len(sub) <= Len(s)
    /\ \E i \in 0..(Len(s) - Len(sub)) : SubSeq(s, i + 1, i + Len(sub)) = sub

\* All sequences over alphabet A of length at most n
SeqsUpTo(A, n) == UNION {[1..k -> A] : k \in 0..n}

Range(s) == {s[i] : i \in DOMAIN s}

-----------------------------------------------------------------------------
(* DependencyAnalyzer.analyzeDependency                                     *)

StorybookNs == <<"@", "s", "t", "o", "r", "y", "b", "o", "o", "k", "/">>

NullDep == [name |-> <<>>, type |-> "null", hasPath |-> FALSE, hasVersion |-> FALSE]

\* analyzeDependency without its framework-namespace filter
analyzeDependencyNoFilter(importPath, versionFound) ==
    IF StartsWith(importPath, <<".">>)
    THEN [name |-> importPath, type |-> "internal", hasPath |-> TRUE, hasVersion |-> FALSE]
    ELSE IF StartsWith(importPath, <<"@">>) \/ ~Includes(importPath, <<"/">>)
    THEN [name |-> importPath, type |-> "npm", hasPath |-> FALSE, hasVersion |-> versionFound]
    ELSE [name |-> importPath, type |-> "registry", hasPath |-> FALSE, hasVersion |-> FALSE]

\* versionFound: whether getPackageInfo found an installed package.json with a version
analyzeDependency(importPath, versionFound) ==
    IF StartsWith(importPath, StorybookNs)
    THEN NullDep
    ELSE IF StartsWith(importPath, <<".">>)
    THEN [name |-> importPath, type |-> "internal", hasPath |-> TRUE, hasVersion |-> FALSE]
    ELSE IF StartsWith(importPath, <<"@">>) \/ ~Includes(importPath, <<"/">>)
    THEN [name |-> importPath, type |-> "npm", hasPath |-> FALSE, hasVersion |-> versionFound]
    ELSE [name |-> importPath, type |-> "registry", hasPath |-> FALSE, hasVersion |-> FALSE]

\* Bounds of the import specifiers drawn as inputs
MaxSuffixLen == 2
MaxImports == 1

SpecChars == {".", "/", "a"}
SpecPrefixes == {<<>>, <<"@">>, StorybookNs, SubSeq(StorybookNs, 1, 10)}
Specifiers == {p \o s : p \in SpecPrefixes, s \in SeqsUpTo(SpecChars, MaxSuffixLen)}

DepIdle ==
    /\ imports = <<>>
    /\ impIdx = 0
    /\ dependencies = <<>>
    /\ dropped = <<>>
    /\ depPc = "idle"

\* analyzeDependencies: the file was read and extractImports returned `imports`
DepInit ==
    /\ imports \in SeqsUpTo(Specifiers, MaxImports)
    /\ impIdx = 1
    /\ dependencies = <<>>
    /\ dropped = <<>>
    /\ depPc = "run"

\* one iteration of `for (const importPath of imports)`
AnalyzeDependencyStep ==
    /\ depPc = "run"
    /\ impIdx <= Len(imports)
    /\ \E versionFound \in BOOLEAN :
         LET depInfo == analyzeDependency(imports[impIdx], versionFound) IN
         IF depInfo # NullDep
         THEN /\ dependencies' = Append(dependencies, depInfo)
              /\ dropped' = dropped
         ELSE /\ dependencies' = dependencies
              /\ dropped' = Append(dropped, imports[impIdx])
    /\ impIdx' = impIdx + 1
    /\ UNCHANGED <<imports, depPc>>

\* `return dependencies`
AnalyzeDependenciesReturn ==
    /\ depPc = "run"
    /\ impIdx > Len(imports)
    /\ depPc' = "done"
    /\ UNCHANGED <<imports, impIdx, dependencies, dropped>>

-----------------------------------------------------------------------------
(* DependencyAnalyzer.findCircularDependencies                              *)

Files == {"a", "b", "c"}
FileOrder == <<"a", "b", "c">>
NoPath == ""

\* Bound: the total number of DependencyInfo records in a graph
MaxEdges == 3

DepInfos ==
    {[type |-> "internal", path |-> f] : f \in Files}
        \cup {[type |-> "internal", path |-> NoPath],
              [type |-> "npm", path |-> "a"],
              [type |-> "registry", path |-> "b"]}

DepLists(k) == [1..k -> DepInfos]

\* how many records each of the files a, b, c holds
EdgeCounts ==
    {n \in [Files -> 0..MaxEdges] : n["a"] + n["b"] + n["c"] <= MaxEdges}

\* A graph whose keys are the first nKeys files; files that are no key hold nothing
GraphsOf(nKeys) ==
    UNION {
        {[keys |-> SubSeq(FileOrder, 1, nKeys), deps |-> d] :
            d \in [a : DepLists(n["a"]), b : DepLists(n["b"]), c : DepLists(n["c"])]} :
        n \in {m \in EdgeCounts : \A i \in 1..3 : i > nKeys => m[FileOrder[i]] = 0}}

Graphs == UNION {GraphsOf(nKeys) : nKeys \in 1..3}

\* graph.get(file) || []
GraphGet(g, file) ==
    IF file \in Range(g.keys) THEN g.deps[file] ELSE <<>>

\* path.indexOf(file), 1-based; 0 when absent
IndexOf(path, file) ==
    IF \E i \in DOMAIN path : path[i] = file
    THEN CHOOSE i \in DOMAIN path : path[i] = file /\ \A j \in 1..(i - 1) : path[j] # file
    ELSE 0

\* the edge test without its type check
FollowsDepAnyType(dep) == dep.path # NoPath

\* `dep.type === 'internal' && dep.path`
FollowsDep(dep) == dep.type = "internal" /\ dep.path # NoPath

CycleIdle ==
    /\ graph = [keys |-> <<>>, deps |-> [f \in Files |-> <<>>]]
    /\ visited = {}
    /\ recursionStack = {}
    /\ cycles = <<>>
    /\ frames = <<>>
    /\ keyIdx = 0
    /\ expanded = [f \in Files |-> 0]
    /\ cyPc = "idle"

CycleInit ==
    /\ graph \in Graphs
    /\ visited = {}
    /\ recursionStack = {}
    /\ cycles = <<>>
    /\ frames = <<>>
    /\ keyIdx = 1
    /\ expanded = [f \in Files |-> 0]
    /\ cyPc = "run"

\* dfs without its `visited` test: a file off the recursion stack is expanded
\* whenever it is called
DfsCallRevisits(file, path, fr) ==
    IF file \in recursionStack
    THEN /\ cycles' = (IF IndexOf(path, file) # 0
                       THEN Append(cycles, SubSeq(path, IndexOf(path, file), Len(path)))
                       ELSE cycles)
         /\ frames' = fr
         /\ UNCHANGED <<visited, recursionStack, expanded>>
    ELSE /\ visited' = visited \cup {file}
         /\ recursionStack' = recursionStack \cup {file}
         /\ expanded' = [expanded EXCEPT ![file] = @ + 1]
         /\ frames' = Append(fr, [file |-> file, path |-> path, next |-> 1])
         /\ UNCHANGED cycles

\* The call dfs(file, path) up to its dependency loop: it returns at once for a
\* file on the recursion stack (recording the cycle) or already visited, and
\* otherwise marks the file and opens its frame. `fr` are the caller's frames.
DfsCall(file, path, fr) ==
    IF file \in recursionStack
    THEN /\ cycles' = (IF IndexOf(path, file) # 0
                       THEN Append(cycles, SubSeq(path, IndexOf(path, file), Len(path)))
                       ELSE cycles)
         /\ frames' = fr
         /\ UNCHANGED <<visited, recursionStack, expanded>>
    ELSE IF file \in visited
    THEN /\ frames' = fr
         /\ UNCHANGED <<visited, recursionStack, cycles, expanded>>
    ELSE /\ visited' = visited \cup {file}
         /\ recursionStack' = recursionStack \cup {file}
         /\ expanded' = [expanded EXCEPT ![file] = @ + 1]
         /\ frames' = Append(fr, [file |-> file, path |-> path, next |-> 1])
         /\ UNCHANGED cycles

\* one iteration of `for (const file of graph.keys())`
CycleOuterStep ==
    /\ cyPc = "run"
    /\ frames = <<>>
    /\ keyIdx <= Len(graph.keys)
    /\ keyIdx' = keyIdx + 1
    /\ IF graph.keys[keyIdx] \notin visited
       THEN DfsCall(graph.keys[keyIdx], <<>>, frames)
       ELSE UNCHANGED <<visited, recursionStack, cycles, frames, expanded>>
    /\ UNCHANGED <<graph, cyPc>>

\* one iteration of `for (const dep of dependencies)` in the innermost dfs
CycleDepStep ==
    /\ cyPc = "run"
    /\ frames # <<>>
    /\ LET top == frames[Len(frames)]
           deps == GraphGet(graph, top.file)
           advanced == [frames EXCEPT ![Len(frames)].next = @ + 1]
       IN /\ top.next <= Len(deps)
          /\ IF FollowsDep(deps[top.next])
             THEN DfsCall(deps[top.next].path, Append(top.path, top.file), advanced)
             ELSE /\ frames' = advanced
                  /\ UNCHANGED <<visited, recursionStack, cycles, expanded>>
    /\ UNCHANGED <<graph, keyIdx, cyPc>>

\* the dependency loop is over: `recursionStack.delete(file)` and dfs returns
CycleReturnStep ==
    /\ cyPc = "run"
    /\ frames # <<>>
    /\ LET top == frames[Len(frames)] IN
          /\ top.next > Len(GraphGet(graph, top.file))
          /\ recursionStack' = recursionStack \ {top.file}
          /\ frames' = SubSeq(frames, 1, Len(frames) - 1)
    /\ UNCHANGED <<graph, visited, cycles, keyIdx, expanded, cyPc>>

\* `return cycles`
CycleFinish ==
    /\ cyPc = "run"
    /\ frames = <<>>
    /\ keyIdx > Len(graph.keys)
    /\ cyPc' = "done"
    /\ UNCHANGED <<graph, visited, recursionStack, cycles, frames, keyIdx, expanded>>

-----------------------------------------------------------------------------
(* ComponentAnalyzer.analyzeComplexity                                      *)

Min(a, b) == IF a <= b THEN a ELSE b

LineCountCap == 1000
MaxScore == 100
DefaultLineEstimate == 100

\* Math.round of a non-negative number given in tenths
RoundTenths(t) == (t + 5) \div 10

\* the score without the cap of Math.min(100, ...)
ComplexityScoreUncapped(fileCount, lineCount, dependencyCount, propCount, storyCount) ==
    RoundTenths((fileCount * 100)
                + Min(lineCount, LineCountCap)
                + (dependencyCount * 50)
                + (propCount * 20)
                + (storyCount * 30))

\* Math.round(Math.min(100, fileCount*10 + Math.min(lineCount, 1000)/10
\*            + dependencyCount*5 + propCount*2 + storyCount*3)), computed in tenths
ComplexityScore(fileCount, lineCount, dependencyCount, propCount, storyCount) ==
    RoundTenths(Min(MaxScore * 10,
                    (fileCount * 100)
                    + Min(lineCount, LineCountCap)
                    + (dependencyCount * 50)
                    + (propCount * 20)
                    + (storyCount * 30)))

\* f: [dependencyCount, storyCount: of the parsed story file;
\*     storyLines: lines of the story file, 0 when it cannot be read;
\*     hasComponentPath; componentReadable; componentLines; propMatches]
analyzeComplexity(f) ==
    LET storyLineCount == IF f.storyLines > 0 THEN f.storyLines ELSE DefaultLineEstimate
        readsComponent == f.hasComponentPath /\ f.componentReadable
        fileCount == IF readsComponent THEN 2 ELSE 1
        lineCount == IF readsComponent THEN storyLineCount + f.componentLines
                     ELSE storyLineCount
        propCount == IF readsComponent THEN f.propMatches ELSE 0
    IN [fileCount |-> fileCount,
        lineCount |-> lineCount,
        dependencyCount |-> f.dependencyCount,
        propCount |-> propCount,
        storyCount |-> f.storyCount,
        score |-> ComplexityScore(fileCount, lineCount, f.dependencyCount,
                                  propCount, f.storyCount)]

\* Bounds of the measured inputs
MaxLines == 6
MaxCount == 2

\* line counts near 1 and around the cap of 1000
LineCounts == (1..MaxLines) \cup ((LineCountCap - MaxLines)..(LineCountCap + MaxLines))

NoComplexity ==
    [fileCount |-> 0, lineCount |-> 0, dependencyCount |-> 0, propCount |-> 0,
     storyCount |-> 0, score |-> 0]

NoComponentFile(f) ==
    /\ f.componentLines = 1
    /\ f.propMatches = 0

ComplexityInputs ==
    {f \in [dependencyCount : 0..MaxCount,
            storyCount : 0..MaxCount,
            storyLines : {0} \cup LineCounts,
            hasComponentPath : BOOLEAN,
            componentReadable : BOOLEAN,
            componentLines : 1..MaxLines,
            propMatches : 0..MaxCount] :
        (~f.hasComponentPath \/ ~f.componentReadable) =>
            (NoComponentFile(f) /\ (~f.hasComponentPath => ~f.componentReadable))}

CxIdle ==
    /\ cxFile = [dependencyCount |-> 0, storyCount |-> 0, storyLines |-> 0,
                 hasComponentPath |-> FALSE, componentReadable |-> FALSE,
                 componentLines |-> 1, propMatches |-> 0]
    /\ complexity = NoComplexity
    /\ cxPc = "idle"

CxInit ==
    /\ cxFile \in ComplexityInputs
    /\ complexity = NoComplexity
    /\ cxPc = "run"

AnalyzeComplexity ==
    /\ cxPc = "run"
    /\ complexity' = analyzeComplexity(cxFile)
    /\ cxPc' = "done"
    /\ UNCHANGED cxFile

-----------------------------------------------------------------------------
(* RegistryGenerator.determineItemType, matchesPattern, meetsCondition      *)

\* The regular expression matchesPattern builds, as a sequence of tokens:
\* "." (any character), "[^/]*" (a run of non-slash characters) or a literal
\* character. pattern.replace(/\*\*/g, '.*') turns "**" into ".*", whose star
\* the next replace(/\*/g, '[^/]*') turns into "[^/]*" like every other star;
\* replace(/\?/g, '.') turns "?" into "."; a "." of the pattern is the
\* regular expression's "." already.
RECURSIVE GlobToRegex(_)
GlobToRegex(pattern) ==
    IF pattern = <<>> THEN <<>>
    ELSE IF Len(pattern) >= 2 /\ pattern[1] = "*" /\ pattern[2] = "*"
    THEN <<".", "[^/]*">> \o GlobToRegex(SubSeq(pattern, 3, Len(pattern)))
    ELSE IF pattern[1] = "*"
    THEN <<"[^/]*">> \o GlobToRegex(Tail(pattern))
    ELSE IF pattern[1] = "?"
    THEN <<".">> \o GlobToRegex(Tail(pattern))
    ELSE <<pattern[1]>> \o GlobToRegex(Tail(pattern))

\* the tokens from position t on match a stretch of s that starts at position j
RECURSIVE MatchesAt(_, _, _, _)
MatchesAt(regex, t, s, j) ==
    IF t > Len(regex) THEN TRUE
    ELSE IF regex[t] = "[^/]*"
    THEN \E k \in j..(Len(s) + 1) :
            /\ \A i \in j..(k - 1) : s[i] # "/"
            /\ MatchesAt(regex, t + 1, s, k)
    ELSE IF regex[t] = "."
    THEN j <= Len(s) /\ MatchesAt(regex, t + 1, s, j + 1)
    ELSE j <= Len(s) /\ s[j] = regex[t] /\ MatchesAt(regex, t + 1, s, j + 1)

\* new RegExp(regexPattern).test(filePath): the expression is not anchored
matchesPattern(filePath, pattern) ==
    \E j \in 1..(Len(filePath) + 1) : MatchesAt(GlobToRegex(pattern), 1, filePath, j)

NoAnalysis == [present |-> FALSE, type |-> "", files |-> 0, score |-> 0]

\* `x || d` for a number x
OrDefault(x, d) == IF x # 0 THEN x ELSE d

meetsCondition(storyFile, analysis, condition, threshold) ==
    CASE condition = "fileCount" ->
            OrDefault(IF analysis.present THEN analysis.files ELSE 0, 1) >= threshold
      [] condition = "complexity" ->
            OrDefault(IF analysis.present THEN analysis.score ELSE 0, 0) >= threshold
      [] condition = "dependencies" ->
            Len(storyFile.dependencies) >= threshold
      [] OTHER -> FALSE

\* `rule.condition && rule.threshold`
HasConditionAndThreshold(rule) ==
    rule.condition # "" /\ rule.hasThreshold /\ rule.threshold # 0

\* the body of `for (const rule of componentTypeRules)`: the rule returns its type
RuleReturns(storyFile, analysis, rule) ==
    /\ matchesPattern(storyFile.filePath, rule.pattern)
    /\ IF HasConditionAndThreshold(rule)
       THEN meetsCondition(storyFile, analysis, rule.condition, rule.threshold)
       ELSE TRUE

\* the loop taking the last rule that returns instead of the first
RECURSIVE RulesTypeLastMatch(_, _, _)
RulesTypeLastMatch(storyFile, analysis, rules) ==
    IF rules = <<>> THEN "registry:component"
    ELSE IF RuleReturns(storyFile, analysis, rules[Len(rules)])
    THEN rules[Len(rules)].type
    ELSE RulesTypeLastMatch(storyFile, analysis, SubSeq(rules, 1, Len(rules) - 1))

\* the loop over componentTypeRules and the default after it
RECURSIVE RulesType(_, _, _)
RulesType(storyFile, analysis, rules) ==
    IF rules = <<>> THEN "registry:component"
    ELSE IF RuleReturns(storyFile, analysis, rules[1])
    THEN rules[1].type
    ELSE RulesType(storyFile, analysis, Tail(rules))

determineItemType(storyFile, analysis, rules) ==
    IF analysis.present /\ analysis.type # ""
    THEN analysis.type
    ELSE RulesType(storyFile, analysis, rules)

\* Bounds of the inputs of determineItemType
MaxPathLen == 3
MaxRules == 2
MaxDependencies == 1

PathChars == {"u", "/"}

Rule(pattern, type, condition, hasThreshold, threshold) ==
    [pattern |-> pattern, type |-> type, condition |-> condition,
     hasThreshold |-> hasThreshold, threshold |-> threshold]

\* configured rules: with and without a condition, with thresholds that hold,
\* fail or are zero
TypeRules ==
    {Rule(<<"*", "*", "/", "u">>, "registry:ui", "", FALSE, 0),
     Rule(<<"u", "*">>, "registry:block", "", FALSE, 0),
     Rule(<<"?">>, "registry:hook", "dependencies", TRUE, 1),
     Rule(<<"u">>, "registry:lib", "fileCount", TRUE, 2),
     Rule(<<"/">>, "registry:page", "complexity", TRUE, 0),
     Rule(<<"u", "/">>, "registry:file", "fileCount", TRUE, 1),
     Rule(<<"*">>, "registry:style", "complexity", TRUE, 1),
     Rule(<<"/", "?">>, "registry:theme", "dependencies", FALSE, 0)}

StoryFilesForType ==
    [filePath : SeqsUpTo(PathChars, MaxPathLen),
     dependencies : SeqsUpTo({<<"a">>}, MaxDependencies)]

AnalysesForType ==
    {NoAnalysis, [present |-> TRUE, type |-> "registry:lib", files |-> 2, score |-> 40]}

TyIdle ==
    /\ tyStoryFile = [filePath |-> <<>>, dependencies |-> <<>>]
    /\ tyAnalysis = NoAnalysis
    /\ tyRules = <<>>
    /\ tyResult = ""
    /\ tyPc = "idle"

TyInit ==
    /\ tyStoryFile \in StoryFilesForType
    /\ tyAnalysis \in AnalysesForType
    /\ tyRules \in SeqsUpTo(TypeRules, MaxRules)
    /\ tyResult = ""
    /\ tyPc = "run"

DetermineItemType ==
    /\ tyPc = "run"
    /\ tyResult' = determineItemType(tyStoryFile, tyAnalysis, tyRules)
    /\ tyPc' = "done"
    /\ UNCHANGED <<tyStoryFile, tyAnalysis, tyRules>>

-----------------------------------------------------------------------------
(* RegistryFileSchema and RegistryItemSchema                                *)

\* JavaScript values, tagged with their kind
Undefined == [k |-> "undefined", s |-> ""]
Str(text) == [k |-> "string", s |-> text]
Num == [k |-> "number", s |-> ""]
Arr(elems) == [k |-> "array", elems |-> elems]
NoArr == [k |-> "undefined", elems |-> <<>>]

ItemTypes ==
    {"registry:component", "registry:ui", "registry:lib", "registry:hook",
     "registry:block", "registry:page", "registry:file", "registry:style",
     "registry:theme"}

\* z.string()
ZString(v) == v.k = "string"

\* z.enum([...])
ZEnum(v) == v.k = "string" /\ v.s \in ItemTypes

\* schema.optional()
ZOptionalString(v) == v.k = "undefined" \/ ZString(v)

\* z.array(element schema)
ZArray(v, ElementOk(_)) ==
    v.k = "array" /\ \A i \in DOMAIN v.elems : ElementOk(v.elems[i])

RegistryFileSchemaOk(file) ==
    /\ ZString(file.path)
    /\ ZEnum(file.type)
    /\ ZOptionalString(file.target)

\* z.record(z.string()).optional(), the record holding one entry
ZOptionalStringRecord(v) ==
    v.k = "undefined" \/ (v.k = "object" /\ ZString(v.entry))

\* cssVars: z.object({theme, light, dark}).optional()
CssVarsSchemaOk(v) ==
    v.k = "undefined" \/ (v.k = "object" /\ ZOptionalStringRecord(v.light))

RegistryItemSchemaOk(item) ==
    /\ ZString(item.name)
    /\ ZEnum(item.type)
    /\ ZString(item.title)
    /\ ZString(item.description)
    /\ item.dependencies.k = "undefined" \/ ZArray(item.dependencies, ZString)
    /\ ZArray(item.files, RegistryFileSchemaOk)
    /\ CssVarsSchemaOk(item.cssVars)

\* Bound of the files array handed to the schema
MaxFiles == 1

FileValues ==
    [path : {Undefined, Str("registry/default/button/button.tsx")},
     type : {Str("registry:ui"), Str("invalid-type")},
     target : {Undefined, Num}]

NoRecord == [k |-> "undefined", entry |-> Undefined]

CssVarsValues ==
    {[k |-> "undefined", light |-> NoRecord],
     [k |-> "object", light |-> NoRecord],
     [k |-> "object", light |-> [k |-> "object", entry |-> Str("0 0% 0%")]],
     [k |-> "object", light |-> [k |-> "object", entry |-> Num]]}

ItemValues ==
    [name : {Undefined, Str(""), Str("button")},
     type : {Undefined, Str("registry:ui"), Str("registry:block"), Str("invalid-type")},
     title : {Undefined, Str("Button")},
     description : {Undefined, Str("A button component")},
     dependencies : {NoArr, Arr(<<Str("react")>>), Arr(<<Num>>)},
     files : {NoArr} \cup {Arr(fs) : fs \in SeqsUpTo(FileValues, MaxFiles)},
     cssVars : CssVarsValues]

ScIdle ==
    /\ scItem = [name |-> Undefined, type |-> Undefined, title |-> Undefined,
                 description |-> Undefined, dependencies |-> NoArr,
                 files |-> NoArr, cssVars |-> [k |-> "undefined", light |-> NoRecord]]
    /\ scResult = ""
    /\ scPc = "idle"

ScInit ==
    /\ scItem \in ItemValues
    /\ scResult = ""
    /\ scPc = "run"

SafeParse ==
    /\ scPc = "run"
    /\ scResult' = IF RegistryItemSchemaOk(scItem) THEN "success" ELSE "failure"
    /\ scPc' = "done"
    /\ UNCHANGED scItem

-----------------------------------------------------------------------------
(* String utilities (utils): kebabCase, startCase                           *)

UpperLetters ==
    <<"A", "B", "C", "D", "E", "F", "G", "H", "I", "J", "K", "L", "M",
      "N", "O", "P", "Q", "R", "S", "T", "U", "V", "W", "X", "Y", "Z">>
LowerLetters ==
    <<"a", "b", "c", "d", "e", "f", "g", "h", "i", "j", "k", "l", "m",
      "n", "o", "p", "q", "r", "s", "t", "u", "v", "w", "x", "y", "z">>

IsUpper(c) == c \in Range(UpperLetters)
IsLower(c) == c \in Range(LowerLetters)
LowerChar(c) ==
    IF IsUpper(c) THEN LowerLetters[CHOOSE i \in DOMAIN UpperLetters : UpperLetters[i] = c]
    ELSE c
UpperChar(c) ==
    IF IsLower(c) THEN UpperLetters[CHOOSE i \in DOMAIN LowerLetters : LowerLetters[i] = c]
    ELSE c

\* String.prototype.toLowerCase
ToLowerCase(s) == [i \in DOMAIN s |-> LowerChar(s[i])]

\* replace(/([a-z])([A-Z])/g, '$1' + sep + '$2')
RECURSIVE SplitCamel(_, _)
SplitCamel(s, sep) ==
    IF Len(s) < 2 THEN s
    ELSE IF IsLower(s[1]) /\ IsUpper(s[2])
    THEN <<s[1], sep>> \o SplitCamel(Tail(s), sep)
    ELSE <<s[1]>> \o SplitCamel(Tail(s), sep)

RECURSIVE DropLeading(_, _)
DropLeading(s, chars) ==
    IF s # <<>> /\ s[1] \in chars THEN DropLeading(Tail(s), chars) ELSE s

\* replace(/[chars]+/g, sep)
RECURSIVE ReplaceRuns(_, _, _)
ReplaceRuns(s, chars, sep) ==
    IF s = <<>> THEN <<>>
    ELSE IF s[1] \in chars
    THEN <<sep>> \o ReplaceRuns(DropLeading(s, chars), chars, sep)
    ELSE <<s[1]>> \o ReplaceRuns(Tail(s), chars, sep)

\* kebabCase without its first replace
kebabCaseNoCamelSplit(str) == ToLowerCase(ReplaceRuns(str, {" ", "_"}, "-"))

kebabCase(str) == ToLowerCase(ReplaceRuns(SplitCamel(str, "-"), {" ", "_"}, "-"))

IsWordChar(c) == IsUpper(c) \/ IsLower(c) \/ c = "_"

\* replace(/\b\w/g, char => char.toUpperCase())
CapitalizeWords(s) ==
    [i \in DOMAIN s |->
        IF IsWordChar(s[i]) /\ (i = 1 \/ ~IsWordChar(s[i - 1]))
        THEN UpperChar(s[i]) ELSE s[i]]

RECURSIVE DropTrailing(_, _)
DropTrailing(s, chars) ==
    IF s # <<>> /\ s[Len(s)] \in chars
    THEN DropTrailing(SubSeq(s, 1, Len(s) - 1), chars) ELSE s

\* String.prototype.trim
Trim(s) == DropTrailing(DropLeading(s, {" "}), {" "})

startCase(str) ==
    Trim(CapitalizeWords(ReplaceRuns(SplitCamel(str, " "), {"-", "_", " "}, " ")))

-----------------------------------------------------------------------------
(* Story source files and StorybookParser                                   *)

\* values extractValue yields for a property initializer
NoValue == [k |-> "undefined", v |-> <<>>]
Text(v) == [k |-> "string", v |-> v]
NumberValue == [k |-> "number", v |-> <<>>]

\* extractValue of an expression [kind, text]: a numeric literal gives a
\* number; a string literal, an identifier and any other expression
\* (getText) give a string
extractValue(expression) ==
    CASE expression.kind = "absent" -> NoValue
      [] expression.kind = "numericLiteral" -> NumberValue
      [] OTHER -> Text(expression.text)

\* JavaScript truthiness of such a value (the numbers in use are non-zero)
Truthy(value) == value.k = "number" \/ (value.k = "string" /\ value.v # <<>>)

\* the properties of an object literal that extractMeta reads and the
\* generators use
NoCssVars == [k |-> "undefined", light |-> NoRecord]

\* title, component, parameters.docs.description and parameters.cssVars
Props(title, component, docsDescription, cssVars) ==
    [title |-> title, component |-> component,
     docsDescription |-> docsDescription, cssVars |-> cssVars]

NoProps == Props(NoValue, NoValue, NoValue, NoCssVars)

\* top-level statements of a story source file
Import(specifier) ==
    [kind |-> "import", text |-> specifier, init |-> "none",
     exported |-> FALSE, props |-> NoProps]
\* [export] const <name> = <initializer>
Var(name, init, exported, props) ==
    [kind |-> "var", text |-> name, init |-> init,
     exported |-> exported, props |-> props]
\* export default <expression>
ExportDefault(init, props) ==
    [kind |-> "exportDefault", text |-> <<>>, init |-> init,
     exported |-> FALSE, props |-> props]

NoMeta ==
    [found |-> FALSE, title |-> NoValue, component |-> NoValue,
     docsDescription |-> NoValue, cssVars |-> NoCssVars]

\* an object literal gives its properties, any other expression gives {}
extractMeta(statement) ==
    IF statement.init = "object"
    THEN [found |-> TRUE, title |-> statement.props.title,
          component |-> statement.props.component,
          docsDescription |-> statement.props.docsDescription,
          cssVars |-> statement.props.cssVars]
    ELSE [NoMeta EXCEPT !.found = TRUE]

\* name === 'meta' || name.toLowerCase().includes('meta')
IsMetaName(name) ==
    name = <<"m", "e", "t", "a">> \/ Includes(ToLowerCase(name), <<"m", "e", "t", "a">>)

\* a string is the name itself; String(number) holds no capital letter
extractComponentName(component) ==
    IF component.k = "string" THEN component.v
    ELSE <<"U", "n", "k", "n", "o", "w", "n", "C", "o", "m", "p", "o", "n", "e", "n", "t">>

RelativeDeps(deps) == SelectSeq(deps, LAMBDA dep : StartsWith(dep, <<".">>))

extractComponentPath(deps, componentName) ==
    LET relativeDeps == RelativeDeps(deps)
        Hit(dep) ==
            \/ Includes(ToLowerCase(dep), ToLowerCase(componentName))
            \/ Includes(dep, <<"c", "o", "m", "p", "o", "n", "e", "n", "t">>)
        hits == SelectSeq(relativeDeps, Hit)
    IN IF hits # <<>> THEN hits[1]
       ELSE IF relativeDeps # <<>> THEN relativeDeps[1]
       ELSE <<>>

filterDependencies(deps) ==
    SelectSeq(deps, LAMBDA dep :
        /\ ~StartsWith(dep, StorybookNs)
        /\ dep # <<"r", "e", "a", "c", "t">>
        /\ dep # <<"r", "e", "a", "c", "t", "-", "d", "o", "m">>)

\* stories[storyName] = story
PutStory(stories, name) ==
    IF name \in Range(stories) THEN stories ELSE Append(stories, name)

\* the body of `visit` for one statement; isExportEquals is what the
\* TypeScript parser stores on the node of an `export default`
VisitStatement(acc, statement, isExportEquals) ==
    LET deps == IF statement.kind = "import"
                THEN Append(acc.deps, statement.text) ELSE acc.deps
        meta1 == IF statement.kind = "exportDefault" /\ isExportEquals = "false"
                 THEN extractMeta(statement) ELSE acc.meta
        meta2 == IF /\ statement.kind = "var"
                    /\ IsMetaName(statement.text)
                    /\ statement.init # "none"
                 THEN extractMeta(statement) ELSE meta1
        stories == IF /\ statement.kind = "var"
                      /\ statement.exported
                      /\ statement.init = "object"
                   THEN PutStory(acc.stories, statement.text) ELSE acc.stories
    IN [meta |-> meta2, stories |-> stories, deps |-> deps]

RECURSIVE VisitAll(_, _, _)
VisitAll(acc, statements, isExportEquals) ==
    IF statements = <<>> THEN acc
    ELSE VisitAll(VisitStatement(acc, statements[1], isExportEquals),
                  Tail(statements), isExportEquals)

\* `if (!meta)` is not taken
parseSourceFileFindsMeta(statements, isExportEquals) ==
    VisitAll([meta |-> NoMeta, stories |-> <<>>, deps |-> <<>>],
             statements, isExportEquals).meta.found

\* the ParsedStoryFile built from a source in which a meta was found
parseSourceFile(filePath, statements, isExportEquals) ==
    LET acc == VisitAll([meta |-> NoMeta, stories |-> <<>>, deps |-> <<>>],
                        statements, isExportEquals)
        hasComponent == Truthy(acc.meta.component)
        componentName == IF hasComponent THEN extractComponentName(acc.meta.component)
                         ELSE <<>>
    IN [filePath |-> filePath,
        meta |-> Props(acc.meta.title, acc.meta.component,
                       acc.meta.docsDescription, acc.meta.cssVars),
        stories |-> acc.stories,
        dependencies |-> filterDependencies(acc.deps),
        componentName |-> componentName,
        componentPath |-> IF hasComponent
                          THEN extractComponentPath(acc.deps, componentName)
                          ELSE <<>>]

\* What the file system holds: story sources by absolute, normalized path,
\* and for each the component file its componentPath leads to.
StoryObject ==
    Props(Text(<<"U", "I", "/", "B", "t", "n">>), Text(<<"B", "t", "n">>),
          NoValue, NoCssVars)
MetaName == <<"m", "e", "t", "a">>
ComponentImport == Import(<<".", "/", "B", "t", "n">>)
StoryExport == Var(<<"D", "e", "f">>, "object", TRUE, NoProps)

NoComponentOnDisk == [readable |-> FALSE, lines |-> 0, propMatches |-> 0]

SourceFile(path, readable, lines, statements, componentFile) ==
    [path |-> path, readable |-> readable, lines |-> lines,
     statements |-> statements, componentFile |-> componentFile]

\* const meta = {...}; export default meta; export const Def = {...}
ButtonStories ==
    SourceFile(<<"/", "B", "t", "n">>, TRUE, 30,
               <<ComponentImport, Import(<<"r", "e", "a", "c", "t">>),
                 Var(MetaName, "object", FALSE, StoryObject),
                 ExportDefault("identifier", NoProps), StoryExport>>,
               [readable |-> TRUE, lines |-> 40, propMatches |-> 2])

\* export default {...}; export const Def = {...}
CardStories ==
    SourceFile(<<"/", "C", "a", "r", "d">>, TRUE, 990,
               <<Import(<<".", "/", "I", "c", "o", "n", "B", "t", "n">>),
                 ExportDefault("object",
                               Props(NoValue,
                                     Text(<<"I", "c", "o", "n", "B", "t", "n">>),
                                     Text(<<"I", "c", "o", "n">>), NoCssVars)),
                 StoryExport>>,
               [readable |-> TRUE, lines |-> 20, propMatches |-> 1])

\* const meta = {...} and a named story; meta is never exported as default
InvalidStories ==
    SourceFile(<<"/", "I", "n", "v">>, TRUE, 12,
               <<ComponentImport, Var(MetaName, "object", FALSE, StoryObject),
                 Var(<<"B", "r", "o", "k", "e", "n">>, "object", TRUE, NoProps)>>,
               NoComponentOnDisk)

\* a named story only: neither a default export nor a meta variable
BareStories ==
    SourceFile(<<"/", "B", "a", "r", "e">>, TRUE, 5, <<StoryExport>>, NoComponentOnDisk)

\* the title is a number: const meta = {title: 42, component: Btn}
NumericTitleStories ==
    SourceFile(<<"/", "N", "u", "m">>, TRUE, 10,
               <<ComponentImport,
                 Var(MetaName, "object", FALSE,
                     Props(NumberValue, Text(<<"B", "t", "n">>), NoValue, NoCssVars)),
                 ExportDefault("identifier", NoProps)>>,
               NoComponentOnDisk)

\* a meta without a component
DocsOnlyStories ==
    SourceFile(<<"/", "u", "i", "/", "D", "o", "c", "s">>, TRUE, 8,
               <<Var(MetaName, "object", FALSE,
                     Props(Text(<<"D", "o", "c", "s">>), NoValue, NoValue, NoCssVars)),
                 ExportDefault("identifier", NoProps), StoryExport>>,
               NoComponentOnDisk)

\* parameters: {cssVars: {light: {background: 0}}}: a number where the
\* registry item schema wants a string
ThemedStories ==
    SourceFile(<<"/", "T", "h", "m">>, TRUE, 14,
               <<Import(<<".", "/", "T", "a", "b">>),
                 Var(MetaName, "object", FALSE,
                     Props(Text(<<"T", "a", "b">>), Text(<<"T", "a", "b">>), NoValue,
                           [k |-> "object", light |-> [k |-> "object", entry |-> Num]])),
                 StoryExport>>,
               [readable |-> TRUE, lines |-> 10, propMatches |-> 0])

\* a path that cannot be read
MissingStories ==
    SourceFile(<<"/", "M", "i", "s", "s">>, FALSE, 0, <<>>, NoComponentOnDisk)

FileSystem ==
    {ButtonStories, CardStories, InvalidStories, BareStories,
     NumericTitleStories, DocsOnlyStories, ThemedStories, MissingStories}

StoryPaths == {file.path : file \in FileSystem}

ReadFile(path) == CHOOSE file \in FileSystem : file.path = path

\* createError(message, code, file)
SyncError(code, file) == [code |-> code, file |-> file]

\* parseStoryFile resolves: the file is read and a meta is found
parseStoryFileSucceeds(filePath, isExportEquals) ==
    /\ ReadFile(filePath).readable
    /\ parseSourceFileFindsMeta(ReadFile(filePath).statements, isExportEquals)

\* the value parseStoryFile resolves with
parseStoryFile(filePath, isExportEquals) ==
    parseSourceFile(filePath, ReadFile(filePath).statements, isExportEquals)

\* the error parseStoryFile rejects with, whatever was thrown inside
parseStoryFileError(filePath) == SyncError("PARSE_ERROR", filePath)

-----------------------------------------------------------------------------
(* ComponentAnalyzer.analyzeComponents                                      *)

\* Math.round(sum / 4)
RoundQuarter(sum) == ((2 * sum) + 4) \div 8

\* the scores of analyzeQuality. q: [hasTitle: meta.title is truthy;
\*   hasDocsDescription: meta.parameters.docs.description is truthy;
\*   storyDescribed: some story has a description;
\*   argTypes: "absent" | "empty" ({}) | "some"; storyCount; score]
QualityScores(q) ==
    LET documentationScore ==
            (IF q.hasTitle THEN 20 ELSE 0)
            + (IF q.hasDocsDescription THEN 30 ELSE 0)
            + (IF q.storyDescribed THEN 25 ELSE 0)
            + (IF q.argTypes = "some" THEN 25 ELSE 0)
        testCoverage == Min(100, q.storyCount * 25)
        storyCompleteness == IF q.storyCount > 0 THEN Min(100, q.storyCount * 20) ELSE 0
        typeDefinitions == IF q.argTypes # "absent" THEN 100 ELSE 0
    IN [documentationScore |-> documentationScore,
        testCoverage |-> testCoverage,
        storyCompleteness |-> storyCompleteness,
        typeDefinitions |-> typeDefinitions,
        overallScore |-> RoundQuarter(documentationScore + testCoverage
                                      + storyCompleteness + typeDefinitions)]

\* `if (!storyFile.meta.argTypes)`
PushesInfo(q) == q.argTypes = "absent"

\* the types of the issues analyzeQuality pushes, in order
QualityIssues(q) ==
    (IF QualityScores(q).documentationScore < 50 THEN <<"warning">> ELSE <<>>)
    \o (IF q.storyCount = 0 THEN <<"error">> ELSE <<>>)
    \o (IF PushesInfo(q) THEN <<"info">> ELSE <<>>)
    \o (IF q.score > 80 THEN <<"warning">> ELSE <<>>)

\* what analyzeQuality reads of a parsed story file: the sources in use
\* hold neither story descriptions nor argTypes
QualityInput(storyFile, score) ==
    [hasTitle |-> Truthy(storyFile.meta.title),
     hasDocsDescription |-> Truthy(storyFile.meta.docsDescription),
     storyDescribed |-> FALSE,
     argTypes |-> "absent",
     storyCount |-> Len(storyFile.stories),
     score |-> score]

DocumentationScore(storyFile) ==
    QualityScores(QualityInput(storyFile, 0)).documentationScore

analyzeQuality(storyFile, score) == QualityIssues(QualityInput(storyFile, score))

PathHas(files, words) ==
    \E i \in DOMAIN files : \E word \in words : Includes(files[i], word)

\* determineComponentType in which the UI rule is tried before the hook rule
determineComponentTypeUiFirst(score, files) ==
    IF score > 70 \/ Len(files) > 3 THEN "registry:block"
    ELSE IF PathHas(files, {<<"u", "i">>}) THEN "registry:ui"
    ELSE IF PathHas(files, {<<"u", "s", "e">>, <<"h", "o", "o", "k">>})
    THEN "registry:hook"
    ELSE IF PathHas(files, {<<"l", "i", "b">>, <<"u", "t", "i", "l">>})
    THEN "registry:lib"
    ELSE "registry:component"

determineComponentType(score, files) ==
    IF score > 70 \/ Len(files) > 3 THEN "registry:block"
    ELSE IF PathHas(files, {<<"u", "s", "e">>, <<"h", "o", "o", "k">>})
    THEN "registry:hook"
    ELSE IF PathHas(files, {<<"l", "i", "b">>, <<"u", "t", "i", "l">>})
    THEN "registry:lib"
    ELSE IF PathHas(files, {<<"u", "i">>}) THEN "registry:ui"
    ELSE "registry:component"

\* analyzeFiles: the paths of the story file and of the component file
analyzeFiles(storyFile) ==
    <<storyFile.filePath>>
    \o (IF storyFile.componentPath # <<>> THEN <<storyFile.componentPath>> ELSE <<>>)

\* Object.entries of an args or argTypes object: <<[name, value]>> with
\* distinct names; [present |-> FALSE] stands for an absent object
NoObject == [present |-> FALSE, entries |-> <<>>]
Object(entries) == [present |-> TRUE, entries |-> entries]

PropNames(props) == {props[i].name : i \in DOMAIN props}

\* propMap.set(name, {name, type: typeof value, required: false, defaultValue: value})
PropFromArg(entry) ==
    [name |-> entry.name, type |-> entry.value.k, required |-> FALSE,
     defaultValue |-> entry.value, description |-> ""]

\* the entries of an args object set whether or not the name is in the map
RECURSIVE SetArgs(_, _)
SetArgs(props, entries) ==
    IF entries = <<>> THEN props
    ELSE LET entry == entries[1]
             next == IF entry.name \in PropNames(props)
                     THEN [i \in DOMAIN props |->
                              IF props[i].name = entry.name THEN PropFromArg(entry)
                              ELSE props[i]]
                     ELSE Append(props, PropFromArg(entry))
         IN SetArgs(next, Tail(entries))

\* `if (!propMap.has(name)) propMap.set(name, ...)` for the entries of one story
RECURSIVE AddMissingArgs(_, _)
AddMissingArgs(props, entries) ==
    IF entries = <<>> THEN props
    ELSE AddMissingArgs(IF entries[1].name \in PropNames(props) THEN props
                        ELSE Append(props, PropFromArg(entries[1])),
                        Tail(entries))

RECURSIVE AddStoryArgs(_, _)
AddStoryArgs(props, stories) ==
    IF stories = <<>> THEN props
    ELSE AddStoryArgs(AddMissingArgs(props, stories[1].entries), Tail(stories))

\* the story args overwrite what is in the map
RECURSIVE SetStoryArgs(_, _)
SetStoryArgs(props, stories) ==
    IF stories = <<>> THEN props
    ELSE SetStoryArgs(SetArgs(props, stories[1].entries), Tail(stories))

\* an argTypes entry applied to the map; argType: [k, type, description,
\* required], type "" standing for none
ApplyArgType(props, entry) ==
    LET argType == entry.value
    IN IF entry.name \in PropNames(props)
       THEN IF argType.k = "object"
            THEN [i \in DOMAIN props |->
                     IF props[i].name = entry.name
                     THEN [props[i] EXCEPT
                              !.type = IF argType.type # "" THEN argType.type ELSE @,
                              !.description = argType.description,
                              !.required = argType.required]
                     ELSE props[i]]
            ELSE props
       ELSE Append(props,
                   IF argType.k = "object"
                   THEN [name |-> entry.name,
                         type |-> IF argType.type # "" THEN argType.type ELSE "unknown",
                         required |-> argType.required,
                         defaultValue |-> NoValue,
                         description |-> argType.description]
                   ELSE [name |-> entry.name, type |-> "unknown", required |-> FALSE,
                         defaultValue |-> NoValue, description |-> ""])

RECURSIVE ApplyArgTypes(_, _)
ApplyArgTypes(props, entries) ==
    IF entries = <<>> THEN props
    ELSE ApplyArgTypes(ApplyArgType(props, entries[1]), Tail(entries))

\* analyzeProps in which a story's args replace the meta args
analyzePropsStoriesOverride(metaArgs, storyArgs, argTypes) ==
    ApplyArgTypes(SetStoryArgs(SetArgs(<<>>, metaArgs.entries), storyArgs),
                  argTypes.entries)

\* analyzeProps: Array.from(propMap.values()), in insertion order
analyzeProps(metaArgs, storyArgs, argTypes) ==
    ApplyArgTypes(AddStoryArgs(SetArgs(<<>>, metaArgs.entries), storyArgs),
                  argTypes.entries)

\* ComponentAnalyzer.analyzeDependencies: name and type of each dependency
analyzeDependencies(storyFile) ==
    [i \in DOMAIN storyFile.dependencies |->
        LET dep == storyFile.dependencies[i]
        IN [name |-> dep,
            type |-> IF StartsWith(dep, <<".">>) THEN "internal"
                     ELSE IF StartsWith(dep, <<"@">>) \/ "/" \notin Range(dep) THEN "npm"
                     ELSE "registry"]]

analyzeComponent(storyFile) ==
    LET onDisk == ReadFile(storyFile.filePath)
        complexityOf ==
            analyzeComplexity(
                [dependencyCount |-> Len(storyFile.dependencies),
                 storyCount |-> Len(storyFile.stories),
                 storyLines |-> IF onDisk.readable THEN onDisk.lines ELSE 0,
                 hasComponentPath |-> storyFile.componentPath # <<>>,
                 componentReadable |-> onDisk.componentFile.readable,
                 componentLines |-> onDisk.componentFile.lines,
                 propMatches |-> onDisk.componentFile.propMatches])
        files == analyzeFiles(storyFile)
    IN [name |-> storyFile.componentName,
        type |-> determineComponentType(complexityOf.score, files),
        score |-> complexityOf.score,
        files |-> files,
        issues |-> analyzeQuality(storyFile, complexityOf.score),
        complexity |-> complexityOf,
        dependencies |-> analyzeDependencies(storyFile),
        props |-> <<>>,
        stories |-> storyFile.stories,
        quality |-> QualityScores(QualityInput(storyFile, complexityOf.score))]

\* createMinimalAnalysis without its issue
createMinimalAnalysisNoIssue(storyFile) ==
    [name |-> storyFile.componentName,
     type |-> "registry:component",
     score |-> 0,
     files |-> <<>>,
     issues |-> <<>>,
     complexity |-> [fileCount |-> 1, lineCount |-> 0,
                     dependencyCount |-> Len(storyFile.dependencies),
                     propCount |-> 0, storyCount |-> Len(storyFile.stories),
                     score |-> 0],
     dependencies |-> <<>>,
     props |-> <<>>,
     stories |-> <<>>,
     quality |-> [documentationScore |-> 0, testCoverage |-> 0,
                  storyCompleteness |-> 0, typeDefinitions |-> 0,
                  overallScore |-> 0]]

\* score and issues stand for complexity.score and quality.issues
createMinimalAnalysis(storyFile) ==
    [name |-> storyFile.componentName,
     type |-> "registry:component",
     score |-> 0,
     files |-> <<>>,
     issues |-> <<"error">>,
     complexity |-> [fileCount |-> 1, lineCount |-> 0,
                     dependencyCount |-> Len(storyFile.dependencies),
                     propCount |-> 0, storyCount |-> Len(storyFile.stories),
                     score |-> 0],
     dependencies |-> <<>>,
     props |-> <<>>,
     stories |-> <<>>,
     quality |-> [documentationScore |-> 0, testCoverage |-> 0,
                  storyCompleteness |-> 0, typeDefinitions |-> 0,
                  overallScore |-> 0]]

\* analyzeComponents leaving out the files whose analysis threw
analyzeComponentsSkipsFailed(storyFilesIn, threw) ==
    LET kept == SelectSeq([i \in DOMAIN storyFilesIn |-> i], LAMBDA i : ~threw[i])
    IN [n \in DOMAIN kept |-> analyzeComponent(storyFilesIn[kept[n]])]

\* analyzeComponents: threw[i] tells whether analyzeComponent threw for file i
analyzeComponents(storyFilesIn, threw) ==
    [i \in DOMAIN storyFilesIn |->
        IF threw[i] THEN createMinimalAnalysis(storyFilesIn[i])
        ELSE analyzeComponent(storyFilesIn[i])]

\* the count of the analyses that have an issue of the type
CountAnalysesWithIssue(analysesIn, type) ==
    Cardinality({i \in DOMAIN analysesIn : type \in Range(analysesIn[i].issues)})

CountIssues(analysesIn, type) ==
    LET RECURSIVE Sum(_)
        Sum(i) == IF i = 0 THEN 0
                  ELSE Sum(i - 1) + Len(SelectSeq(analysesIn[i].issues, LAMBDA t : t = type))
    IN Sum(Len(analysesIn))

-----------------------------------------------------------------------------
(* RegistryGenerator.generateRegistry                                       *)

\* config.mapping.componentTypeRules of the default configuration
DefaultTypeRules ==
    <<Rule(<<"*", "*", "/", "u", "i", "/", "*", "*">>, "registry:ui", "", FALSE, 0),
      Rule(<<"*", "*", "/", "b", "l", "o", "c", "k", "s", "/", "*", "*">>,
           "registry:block", "", FALSE, 0),
      Rule(<<"*", "*", "/", "h", "o", "o", "k", "s", "/", "*", "*">>,
           "registry:hook", "", FALSE, 0)>>

RECURSIVE LastSegment(_)
\* title.split('/') and its last part
LastSegment(s) ==
    IF "/" \in Range(s) THEN LastSegment(Tail(s)) ELSE s

\* generateTitle returning meta.title as it stands
generateTitleWholeTitle(storyFile) ==
    IF Truthy(storyFile.meta.title) THEN storyFile.meta.title.v
    ELSE startCase(storyFile.componentName)

\* generateTitle for a title that is a string or absent
generateTitle(storyFile) ==
    IF Truthy(storyFile.meta.title)
    THEN IF LastSegment(storyFile.meta.title.v) # <<>>
         THEN LastSegment(storyFile.meta.title.v)
         ELSE storyFile.componentName
    ELSE startCase(storyFile.componentName)

getFileType(itemType) ==
    IF itemType \in {"registry:ui", "registry:hook", "registry:lib"} THEN itemType
    ELSE "registry:component"

\* a registry path is registry/default/<componentName>/<file of that kind>
generateFiles(storyFile, type) ==
    LET componentName == kebabCase(storyFile.componentName)
    IN (IF storyFile.componentPath # <<>>
        THEN <<[path |-> [dir |-> componentName, kind |-> "component"],
                type |-> getFileType(type)]>>
        ELSE <<>>)
       \o (IF type = "registry:block"
           THEN <<[path |-> [dir |-> componentName, kind |-> "index"],
                   type |-> "registry:component"]>>
           ELSE <<>>)

\* analyses?.[i] when no analyses are passed
AbsentAnalysis ==
    [name |-> <<>>, type |-> "", score |-> 0, files |-> <<>>, issues |-> <<>>,
     complexity |-> NoComplexity, dependencies |-> <<>>, props |-> <<>>,
     stories |-> <<>>,
     quality |-> [documentationScore |-> 0, testCoverage |-> 0,
                  storyCompleteness |-> 0, typeDefinitions |-> 0,
                  overallScore |-> 0]]

AnalysisForType(analysis) ==
    IF analysis = AbsentAnalysis THEN NoAnalysis
    ELSE [present |-> TRUE, type |-> analysis.type, files |-> Len(analysis.files),
          score |-> analysis.score]

\* generateDescription: docs.description when it is a string, else the
\* default sentence
generateDescription(storyFile) ==
    IF Truthy(storyFile.meta.docsDescription) /\ storyFile.meta.docsDescription.k = "string"
    THEN storyFile.meta.docsDescription.v
    ELSE <<"A", " ">> \o storyFile.componentName
         \o <<" ", "c", "o", "m", "p", "o", "n", "e", "n", "t", ".">>

\* generateCssVars: parameters.cssVars when it is an object
generateCssVars(storyFile) ==
    IF storyFile.meta.cssVars.k = "object" THEN storyFile.meta.cssVars ELSE NoCssVars

\* the item assembled before validation; its dependency lists hold strings
\* only and are left out
BuildItem(storyFile, analysis) ==
    LET type == determineItemType(storyFile, AnalysisForType(analysis), DefaultTypeRules)
    IN [name |-> kebabCase(storyFile.componentName),
        type |-> type,
        title |-> generateTitle(storyFile),
        description |-> generateDescription(storyFile),
        files |-> generateFiles(storyFile, type),
        cssVars |-> generateCssVars(storyFile)]

\* the item as RegistryItemSchema sees it
ItemValue(item) ==
    [name |-> Str(item.name),
     type |-> Str(item.type),
     title |-> Str(item.title),
     description |-> Str(item.description),
     dependencies |-> NoArr,
     files |-> Arr([i \in DOMAIN item.files |->
                       [path |-> Str(item.files[i].path),
                        type |-> Str(item.files[i].type),
                        target |-> Undefined]]),
     cssVars |-> item.cssVars]

\* generateRegistryItem: "null" without a component name; "throws" when
\* meta.title is truthy and not a string (title.split is not a function) or
\* the item fails RegistryItemSchema; "item" otherwise
generateRegistryItemOutcome(storyFile, analysis) ==
    IF storyFile.componentName = <<>> THEN "null"
    ELSE IF Truthy(storyFile.meta.title) /\ storyFile.meta.title.k # "string"
    THEN "throws"
    ELSE IF ~RegistryItemSchemaOk(ItemValue(BuildItem(storyFile, analysis)))
    THEN "throws"
    ELSE "item"

\* generateRegistry gives up at the first file without an item
RECURSIVE generateRegistryStopsAtFailure(_, _)
generateRegistryStopsAtFailure(storyFilesIn, analysesIn) ==
    IF storyFilesIn = <<>> THEN <<>>
    ELSE IF generateRegistryItemOutcome(storyFilesIn[1], analysesIn[1]) = "item"
    THEN <<BuildItem(storyFilesIn[1], analysesIn[1])>>
         \o generateRegistryStopsAtFailure(Tail(storyFilesIn), Tail(analysesIn))
    ELSE <<>>

\* generateRegistry: the items of the files for which an item is generated
RECURSIVE generateRegistry(_, _)
generateRegistry(storyFilesIn, analysesIn) ==
    IF storyFilesIn = <<>> THEN <<>>
    ELSE (IF generateRegistryItemOutcome(storyFilesIn[1], analysesIn[1]) = "item"
          THEN <<BuildItem(storyFilesIn[1], analysesIn[1])>> ELSE <<>>)
         \o generateRegistry(Tail(storyFilesIn), Tail(analysesIn))

RegistrySchemaOk(items) ==
    \A i \in DOMAIN items : RegistryItemSchemaOk(ItemValue(items[i]))

\* RegistrySchema.safeParse(registry): name is config.output.registryName
RegistryDocumentOk(name, items) == ZString(name) /\ RegistrySchemaOk(items)

-----------------------------------------------------------------------------
(* SyncOrchestrator.sync, SyncOrchestrator.export and                       *)
(* StorybookParser.parseStoryFiles                                          *)

\* Bound of the batch of story files
MaxBatch == 2

\* the batches of distinct paths, in every order
Batches ==
    {batch \in SeqsUpTo(StoryPaths, MaxBatch) :
        \A i, j \in DOMAIN batch : i # j => batch[i] # batch[j]}

\* `{ $schema: '', name: '', items: [] }`
EmptyRegistry == [name |-> <<>>, items |-> <<>>]

NoOutcome ==
    [kind |-> "none", success |-> FALSE, registry |-> EmptyRegistry, items |-> <<>>,
     errors |-> <<>>, hasErrors |-> FALSE, code |-> ""]

NoStats ==
    [filesProcessed |-> 0, componentsGenerated |-> 0, errorsCount |-> 0,
     warningsCount |-> 0]

\* config.output.registryName: a name, or none
RegistryNames == {Str("my-components"), Undefined}

\* the options of sync, with config.output.registryName and
\* config.generation.generateIndividualItems
SyncOptions ==
    [generateExamples : BOOLEAN, validate : BOOLEAN,
     registryName : RegistryNames, generateIndividualItems : BOOLEAN]

DefaultOptions ==
    [generateExamples |-> FALSE, validate |-> FALSE,
     registryName |-> Str("my-components"), generateIndividualItems |-> TRUE]

\* a discovery that fails has found nothing
PipelineInit ==
    /\ op \in {"sync", "parseStoryFiles"}
    /\ storyFiles \in Batches
    /\ tsIsExportEquals \in {"false", "undefined"}
    /\ options \in SyncOptions
    /\ ioFailure \in {"none", "discover", "write", "examples"}
    /\ ioFailure = "discover" => storyFiles = <<>>
    /\ op = "parseStoryFiles" =>
          /\ options = DefaultOptions
          /\ ioFailure = "none"
    /\ pc = IF op = "sync" THEN "discover" ELSE "loop"
    /\ fileIdx = 1
    /\ parsedFiles = <<>>
    /\ parseErrors = <<>>
    /\ results = <<>>
    /\ errors = <<>>
    /\ stats = NoStats
    /\ analyses = <<>>
    /\ registryItems = <<>>
    /\ written = <<>>
    /\ outcome = NoOutcome

\* parseStoryFiles throws PARSE_ALL_FAILED on any failure
ThrowsOnAnyFailure(resultsIn, errorsIn) == Len(errorsIn) > 0

\* `errors.length > 0 && results.length === 0`
ThrowsParseAllFailed(resultsIn, errorsIn) == Len(errorsIn) > 0 /\ Len(resultsIn) = 0

\* the body of the loop of parseStoryFiles for one file, called directly or
\* by export
ParseStoryFilesStep ==
    /\ op \in {"parseStoryFiles", "export"}
    /\ pc = "loop"
    /\ fileIdx <= Len(storyFiles)
    /\ IF parseStoryFileSucceeds(storyFiles[fileIdx], tsIsExportEquals)
       THEN /\ results' = Append(results, parseStoryFile(storyFiles[fileIdx], tsIsExportEquals))
            /\ UNCHANGED errors
       ELSE /\ errors' = Append(errors, parseStoryFileError(storyFiles[fileIdx]))
            /\ UNCHANGED results
    /\ fileIdx' = fileIdx + 1
    /\ UNCHANGED <<op, storyFiles, tsIsExportEquals, options, ioFailure, pc, parsedFiles,
                   parseErrors, stats, analyses, registryItems, written, outcome>>

\* after the loop: throw PARSE_ALL_FAILED or return results
ParseStoryFilesReturn ==
    /\ op = "parseStoryFiles"
    /\ pc = "loop"
    /\ fileIdx > Len(storyFiles)
    /\ outcome' = IF ThrowsParseAllFailed(results, errors)
                  THEN [NoOutcome EXCEPT !.kind = "threw", !.code = "PARSE_ALL_FAILED"]
                  ELSE [NoOutcome EXCEPT !.kind = "returned"]
    /\ pc' = "done"
    /\ UNCHANGED <<op, storyFiles, tsIsExportEquals, options, ioFailure, fileIdx,
                   parsedFiles, parseErrors, results, errors, stats, analyses,
                   registryItems, written>>

\* the catch block of sync without its result
CaughtRethrows(error) ==
    /\ stats' = [stats EXCEPT !.errorsCount = @ + 1]
    /\ outcome' = [kind |-> "threw", success |-> FALSE, registry |-> EmptyRegistry,
                   items |-> <<>>, errors |-> <<error>>, hasErrors |-> TRUE,
                   code |-> error.code]
    /\ pc' = "done"

\* the catch block of sync
Caught(error) ==
    /\ stats' = [stats EXCEPT !.errorsCount = @ + 1]
    /\ outcome' = [kind |-> "returned", success |-> FALSE, registry |-> EmptyRegistry,
                   items |-> <<>>, errors |-> <<error>>, hasErrors |-> TRUE,
                   code |-> ""]
    /\ pc' = "done"

\* discoverStoryFiles throws DISCOVERY_ERROR when glob fails
DiscoveryFails == ioFailure = "discover"

\* discovery: a failure is caught; an empty list returns at once, without
\* an errors field
SyncDiscover ==
    /\ op = "sync"
    /\ pc = "discover"
    /\ IF DiscoveryFails
       THEN Caught(SyncError("DISCOVERY_ERROR", <<>>))
       ELSE IF storyFiles = <<>>
       THEN /\ outcome' = [kind |-> "returned", success |-> TRUE,
                           registry |-> EmptyRegistry, items |-> <<>>,
                           errors |-> <<>>, hasErrors |-> FALSE, code |-> ""]
            /\ pc' = "done"
            /\ UNCHANGED stats
       ELSE /\ pc' = "parse"
            /\ UNCHANGED <<outcome, stats>>
    /\ UNCHANGED <<op, storyFiles, tsIsExportEquals, options, ioFailure, fileIdx,
                   parsedFiles, parseErrors, results, errors, analyses,
                   registryItems, written>>

\* the body of the parse loop of sync for one file
SyncParseFile ==
    /\ op = "sync"
    /\ pc = "parse"
    /\ fileIdx <= Len(storyFiles)
    /\ IF parseStoryFileSucceeds(storyFiles[fileIdx], tsIsExportEquals)
       THEN /\ parsedFiles' = Append(parsedFiles,
                                     parseStoryFile(storyFiles[fileIdx], tsIsExportEquals))
            /\ stats' = [stats EXCEPT !.filesProcessed = @ + 1]
            /\ UNCHANGED parseErrors
       ELSE /\ parseErrors' = Append(parseErrors, parseStoryFileError(storyFiles[fileIdx]))
            /\ stats' = [stats EXCEPT !.errorsCount = @ + 1]
            /\ UNCHANGED parsedFiles
    /\ fileIdx' = fileIdx + 1
    /\ UNCHANGED <<op, storyFiles, tsIsExportEquals, options, ioFailure, pc, results,
                   errors, analyses, registryItems, written, outcome>>

\* the parse loop of sync throws whenever some file failed
SomeParseFailed(parsedFilesIn) == parseErrors # <<>>

\* `parsedFiles.length === 0`
NoFileParsed(parsedFilesIn) == Len(parsedFilesIn) = 0

\* after the parse loop: throw PARSE_ALL_FAILED or go on
SyncParseCheck ==
    /\ op = "sync"
    /\ pc = "parse"
    /\ fileIdx > Len(storyFiles)
    /\ IF NoFileParsed(parsedFiles)
       THEN Caught(SyncError("PARSE_ALL_FAILED", <<>>))
       ELSE /\ pc' = "analyze"
            /\ UNCHANGED <<stats, outcome>>
    /\ UNCHANGED <<op, storyFiles, tsIsExportEquals, options, ioFailure, fileIdx,
                   parsedFiles, parseErrors, results, errors, analyses,
                   registryItems, written>>

\* analyzeComponents and the count of the quality issues; an exception
\* inside analyzeComponent is caught there and leaves a minimal analysis
SyncAnalyze ==
    /\ op = "sync"
    /\ pc = "analyze"
    /\ \E threw \in [DOMAIN parsedFiles -> BOOLEAN] :
          /\ analyses' = analyzeComponents(parsedFiles, threw)
          /\ stats' = [stats EXCEPT
                          !.warningsCount = @ + CountIssues(analyses', "warning"),
                          !.errorsCount = @ + CountIssues(analyses', "error")]
    /\ pc' = "generate"
    /\ UNCHANGED <<op, storyFiles, tsIsExportEquals, options, ioFailure, fileIdx,
                   parsedFiles, parseErrors, results, errors, registryItems,
                   written, outcome>>

WrittenItems(items) ==
    [i \in DOMAIN items |-> [kind |-> "item", name |-> items[i].name]]

\* generateRegistry returns whatever RegistrySchema says
generateRegistryNeverThrows(name, items) == FALSE

\* `if (!validation.success) throw createError(...)` of generateRegistry
generateRegistryThrows(name, items) == ~RegistryDocumentOk(name, items)

\* generateAndWrite: generateRegistry, then ensureDir, writeRegistry and,
\* if generateIndividualItems, writeRegistryItems; a file system failure is
\* taken at ensureDir
SyncGenerateAndWrite ==
    /\ op = "sync"
    /\ pc = "generate"
    /\ registryItems' = generateRegistry(parsedFiles, analyses)
    /\ IF generateRegistryThrows(options.registryName, registryItems')
       THEN /\ Caught(SyncError("REGISTRY_VALIDATION_ERROR", <<>>))
            /\ UNCHANGED written
       ELSE IF ioFailure = "write"
       THEN /\ Caught(SyncError("EACCES", <<>>))
            /\ UNCHANGED written
       ELSE /\ written' = <<[kind |-> "registry", name |-> <<>>]>>
                          \o (IF options.generateIndividualItems
                              THEN WrittenItems(registryItems')
                              ELSE <<>>)
            /\ stats' = [stats EXCEPT !.componentsGenerated = Len(registryItems')]
            /\ pc' = "examples"
            /\ UNCHANGED outcome
    /\ UNCHANGED <<op, storyFiles, tsIsExportEquals, options, ioFailure, fileIdx,
                   parsedFiles, parseErrors, results, errors, analyses>>

\* generateExamples: parsedFiles[i] is paired with items[i]; the document
\* <item.name>.md is generateDocumentation(storyFile, item)
WrittenExamples(parsedFilesIn, items) ==
    LET paired == SelectSeq([i \in DOMAIN parsedFilesIn |-> i], LAMBDA i : i <= Len(items))
    IN [n \in DOMAIN paired |->
           [kind |-> "example", name |-> items[paired[n]].name,
            storyFile |-> parsedFilesIn[paired[n]].filePath]]

\* `if (options.generateExamples)`; a file system failure is taken at ensureDir
SyncGenerateExamples ==
    /\ op = "sync"
    /\ pc = "examples"
    /\ IF options.generateExamples /\ ioFailure = "examples"
       THEN /\ Caught(SyncError("EACCES", <<>>))
            /\ UNCHANGED written
       ELSE /\ written' = IF options.generateExamples
                          THEN written \o WrittenExamples(parsedFiles, registryItems)
                          ELSE written
            /\ pc' = "return"
            /\ UNCHANGED <<stats, outcome>>
    /\ UNCHANGED <<op, storyFiles, tsIsExportEquals, options, ioFailure, fileIdx,
                   parsedFiles, parseErrors, results, errors, analyses, registryItems>>

\* the result of a completed run carries no errors
NoErrorsReturned(parseErrorsIn) == <<>>

\* `errors: parseErrors`
ReturnedErrors(parseErrorsIn) == parseErrorsIn

\* `if (options.validate)` validateOutput, then the result of the run
SyncValidateAndReturn ==
    /\ op = "sync"
    /\ pc = "return"
    /\ IF options.validate /\ ~RegistryDocumentOk(options.registryName, registryItems)
       THEN Caught(SyncError("REGISTRY_VALIDATION_ERROR", <<>>))
       ELSE /\ outcome' = [kind |-> "returned", success |-> TRUE,
                           registry |-> [name |-> options.registryName,
                                         items |-> registryItems],
                           items |-> registryItems,
                           errors |-> ReturnedErrors(parseErrors),
                           hasErrors |-> TRUE, code |-> ""]
            /\ pc' = "done"
            /\ UNCHANGED stats
    /\ UNCHANGED <<op, storyFiles, tsIsExportEquals, options, ioFailure, fileIdx,
                   parsedFiles, parseErrors, results, errors, analyses,
                   registryItems, written>>

\* export(options): discovery found storyFiles
ExportInit ==
    /\ op = "export"
    /\ storyFiles \in Batches
    /\ tsIsExportEquals \in {"false", "undefined"}
    /\ options \in [format : {"registry", "individual"}, includeExamples : BOOLEAN]
    /\ ioFailure \in {"none", "write", "examples"}
    /\ pc = "loop"
    /\ fileIdx = 1
    /\ parsedFiles = <<>>
    /\ parseErrors = <<>>
    /\ results = <<>>
    /\ errors = <<>>
    /\ stats = NoStats
    /\ analyses = <<>>
    /\ registryItems = <<>>
    /\ written = <<>>
    /\ outcome = NoOutcome

\* the catch block of export: throw createError(..., 'EXPORT_FAILED')
ExportCaught ==
    /\ outcome' = [NoOutcome EXCEPT !.kind = "threw", !.code = "EXPORT_FAILED"]
    /\ pc' = "done"

\* parseStoryFiles has returned to export or thrown PARSE_ALL_FAILED
ExportParsed ==
    /\ op = "export"
    /\ pc = "loop"
    /\ fileIdx > Len(storyFiles)
    /\ IF ThrowsParseAllFailed(results, errors)
       THEN /\ ExportCaught
            /\ UNCHANGED parsedFiles
       ELSE /\ parsedFiles' = results
            /\ pc' = "analyze"
            /\ UNCHANGED outcome
    /\ UNCHANGED <<op, storyFiles, tsIsExportEquals, options, ioFailure, fileIdx,
                   parseErrors, results, errors, stats, analyses, registryItems,
                   written>>

\* analyzeComponents(parsedFiles)
ExportAnalyze ==
    /\ op = "export"
    /\ pc = "analyze"
    /\ \E threw \in [DOMAIN parsedFiles -> BOOLEAN] :
          analyses' = analyzeComponents(parsedFiles, threw)
    /\ pc' = "write"
    /\ UNCHANGED <<op, storyFiles, tsIsExportEquals, options, ioFailure, fileIdx,
                   parsedFiles, parseErrors, results, errors, stats, registryItems,
                   written, outcome>>

\* generateRegistry, ensureDir, the registry or the items written, the
\* examples when asked for, and the result; a file system failure is taken
\* at the ensureDir of the step named by ioFailure
ExportWriteAndReturn ==
    /\ op = "export"
    /\ pc = "write"
    /\ registryItems' = generateRegistry(parsedFiles, analyses)
    /\ LET documents == IF options.format = "registry"
                        THEN <<[kind |-> "registry", name |-> <<>>]>>
                        ELSE WrittenItems(registryItems')
       IN IF ~RegistrySchemaOk(registryItems') \/ ioFailure = "write"
          THEN /\ ExportCaught
               /\ UNCHANGED <<written, stats>>
          ELSE IF options.includeExamples /\ ioFailure = "examples"
          THEN /\ ExportCaught
               /\ written' = documents
               /\ UNCHANGED stats
          ELSE /\ written' = IF options.includeExamples
                             THEN documents \o WrittenExamples(parsedFiles, registryItems')
                             ELSE documents
               /\ stats' = [filesProcessed |-> Len(parsedFiles),
                            componentsGenerated |-> Len(registryItems'),
                            errorsCount |-> 0, warningsCount |-> 0]
               /\ outcome' = [kind |-> "returned", success |-> TRUE,
                              registry |-> [name |-> Str("my-components"),
                                            items |-> registryItems'],
                              items |-> registryItems', errors |-> <<>>,
                              hasErrors |-> FALSE, code |-> ""]
               /\ pc' = "done"
    /\ UNCHANGED <<op, storyFiles, tsIsExportEquals, options, ioFailure, fileIdx,
                   parsedFiles, parseErrors, results, errors, analyses>>

PipelineIdle ==
    /\ op = "none"
    /\ storyFiles = <<>>
    /\ tsIsExportEquals = "undefined"
    /\ options = [generateExamples |-> FALSE, validate |-> FALSE]
    /\ ioFailure = "none"
    /\ pc = "idle"
    /\ fileIdx = 1
    /\ parsedFiles = <<>>
    /\ parseErrors = <<>>
    /\ results = <<>>
    /\ errors = <<>>
    /\ stats = NoStats
    /\ analyses = <<>>
    /\ registryItems = <<>>
    /\ written = <<>>
    /\ outcome = NoOutcome

-----------------------------------------------------------------------------
(* Calls of single functions: kebabCase, generateRegistry,                  *)
(* generateRegistryItem, parseSourceFile, initialize, analyzeComponents,    *)
(* analyzeProps, determineComponentType, analyzeQuality                     *)

MaxNameLen == 4
KebabChars == {"a", "B", " ", "_", "-"}
KebabInputs == SeqsUpTo(KebabChars, MaxNameLen)

CallIdle ==
    /\ callee = "none"
    /\ args = <<>>
    /\ returned = <<>>
    /\ callPc = "idle"

KebabInit ==
    /\ callee = "kebabCase"
    /\ args \in KebabInputs
    /\ returned = <<>>
    /\ callPc = "run"

\* kebabCase(str)
CallKebabCase ==
    /\ callPc = "run"
    /\ callee = "kebabCase"
    /\ returned' = kebabCase(args)
    /\ callPc' = "done"
    /\ UNCHANGED <<callee, args>>

\* the batches of parsed story files: what parseStoryFile resolved with
ParsedBatches ==
    UNION {{[i \in DOMAIN batch |-> parseStoryFile(batch[i], isExportEquals)] :
               batch \in {b \in Batches :
                             \A i \in DOMAIN b :
                                parseStoryFileSucceeds(b[i], isExportEquals)}} :
           isExportEquals \in {"false", "undefined"}}

\* generateRegistry(storyFiles, analyses?) of a generator whose
\* config.output.registryName is `registryName`
GenerateInit ==
    /\ callee = "generateRegistry"
    /\ \E batch \in ParsedBatches, name \in RegistryNames, withAnalyses \in BOOLEAN :
          args = [storyFiles |-> batch,
                  analyses |-> IF withAnalyses
                               THEN analyzeComponents(batch, [i \in DOMAIN batch |-> FALSE])
                               ELSE [i \in DOMAIN batch |-> AbsentAnalysis],
                  registryName |-> name]
    /\ returned = <<>>
    /\ callPc = "run"

CallGenerateRegistry ==
    /\ callPc = "run"
    /\ callee = "generateRegistry"
    /\ LET items == generateRegistry(args.storyFiles, args.analyses)
       IN returned' =
             IF RegistryDocumentOk(args.registryName, items)
             THEN [kind |-> "returned", code |-> "", name |-> args.registryName,
                   items |-> items]
             ELSE [kind |-> "threw", code |-> "REGISTRY_VALIDATION_ERROR",
                   name |-> Undefined, items |-> <<>>]
    /\ callPc' = "done"
    /\ UNCHANGED <<callee, args>>

ComponentsButton ==
    <<"C", "o", "m", "p", "o", "n", "e", "n", "t", "s", "/", "B", "u", "t", "t", "o", "n">>
ButtonName == <<"B", "u", "t", "t", "o", "n">>
IconBtnName == <<"i", "c", "o", "n", "B", "t", "n">>
PlainPath == <<"/", "s", "/", "B">>
UiPath == <<"/", "u", "i", "/", "B">>

\* the parsed story files handed to generateRegistryItem; the args of a
\* story play no part in the item
ItemStoryFiles ==
    {[filePath |-> filePath,
      meta |-> Props(title, Text(componentName), docsDescription, NoCssVars),
      stories |-> <<<<"P", "r", "i", "m", "a", "r", "y">>>>,
      dependencies |-> <<>>,
      componentName |-> componentName,
      componentPath |-> componentPath] :
        filePath \in {PlainPath, UiPath},
        title \in {NoValue, Text(<<>>), Text(ComponentsButton), Text(ButtonName),
                   Text(<<"F", "o", "r", "m", "s", "/">>)},
        componentName \in {ButtonName, IconBtnName},
        docsDescription \in {NoValue, NumberValue, Text(<<"P", "r", "e", "s", "s">>)},
        componentPath \in {<<>>, <<".", "/", "B", "u", "t", "t", "o", "n">>}}

ItemAnalyses ==
    {AbsentAnalysis,
     [AbsentAnalysis EXCEPT !.name = ButtonName, !.type = "registry:ui", !.score = 12,
                            !.files = <<PlainPath>>, !.issues = <<"info">>,
                            !.complexity = [NoComplexity EXCEPT !.fileCount = 1,
                                                                !.score = 12]],
     [AbsentAnalysis EXCEPT !.name = ButtonName, !.type = "registry:block", !.score = 75,
                            !.files = <<PlainPath>>, !.issues = <<"info">>,
                            !.complexity = [NoComplexity EXCEPT !.fileCount = 1,
                                                                !.score = 75]]}

NoItem ==
    [name |-> <<>>, type |-> "", title |-> <<>>, description |-> <<>>,
     files |-> <<>>, cssVars |-> NoCssVars]

ItemInit ==
    /\ callee = "generateRegistryItem"
    /\ args \in [storyFile : ItemStoryFiles, analysis : ItemAnalyses]
    /\ returned = <<>>
    /\ callPc = "run"

\* generateRegistryItem(storyFile, analysis?)
CallGenerateRegistryItem ==
    /\ callPc = "run"
    /\ callee = "generateRegistryItem"
    /\ LET made == generateRegistryItemOutcome(args.storyFile, args.analysis)
       IN returned' = [outcome |-> made,
                       item |-> IF made = "item"
                                THEN BuildItem(args.storyFile, args.analysis)
                                ELSE NoItem]
    /\ callPc' = "done"
    /\ UNCHANGED <<callee, args>>

RefChars == {"B", "a", ".", "1"}

\* the texts of a component reference: identifiers and property accesses
ReferenceTexts ==
    {text \in SeqsUpTo(RefChars, MaxNameLen) :
        /\ text # <<>>
        /\ text[1] \notin {".", "1"}
        /\ text[Len(text)] # "."
        /\ \A i \in 1..(Len(text) - 1) : text[i] = "." => text[i + 1] \notin {".", "1"}}

\* the initializers of `component:` in the meta object
ComponentExpressions ==
    {[kind |-> "absent", text |-> <<>>], [kind |-> "numericLiteral", text |-> <<"1">>]}
    \cup {[kind |-> IF "." \in Range(text) THEN "propertyAccess" ELSE "identifier",
           text |-> text] : text \in ReferenceTexts}

\* a story source whose meta object literal is `object`, in one of the two
\* shapes: "direct" is `export default {...}`, "binding" is
\* `const meta = {...}; export default meta`
StorySource(object, shape, storyCount) ==
    <<ComponentImport>>
    \o (IF shape = "direct" THEN <<ExportDefault("object", object)>>
        ELSE <<Var(MetaName, "object", FALSE, object),
               ExportDefault("identifier", NoProps)>>)
    \o (IF storyCount > 0 THEN <<StoryExport>> ELSE <<>>)

NoParsedFile ==
    [filePath |-> <<>>, meta |-> NoProps, stories |-> <<>>, dependencies |-> <<>>,
     componentName |-> <<>>, componentPath |-> <<>>]

\* parseSourceFile returns the parsed file or throws NO_META_EXPORT
ParseOutcome(statements, isExportEquals) ==
    IF parseSourceFileFindsMeta(statements, isExportEquals)
    THEN [kind |-> "parsed", code |-> "",
          file |-> parseSourceFile(<<>>, statements, isExportEquals)]
    ELSE [kind |-> "threw", code |-> "NO_META_EXPORT", file |-> NoParsedFile]

ParseInit ==
    /\ callee = "parseSourceFile"
    /\ args \in [title : {NoValue, Text(<<"U", "I", "/", "B", "t", "n">>)},
                 component : ComponentExpressions,
                 shape : {"direct", "binding"},
                 storyCount : 0..1,
                 isExportEquals : {"false", "undefined"}]
    /\ returned = <<>>
    /\ callPc = "run"

\* the meta object literal of the source parsed
MetaObject == Props(args.title, extractValue(args.component), NoValue, NoCssVars)

CallParseSourceFile ==
    /\ callPc = "run"
    /\ callee = "parseSourceFile"
    /\ returned' = ParseOutcome(StorySource(MetaObject, args.shape, args.storyCount),
                                args.isExportEquals)
    /\ callPc' = "done"
    /\ UNCHANGED <<callee, args>>

\* a || b || c on strings, "" standing for an absent option
FirstGiven(a, b, c) == IF a # "" THEN a ELSE IF b # "" THEN b ELSE c

NoFile == [exists |-> FALSE, storybookPath |-> "", componentsPath |-> "", registryPath |-> ""]

ConfigFile(storybookPath, componentsPath, registryPath) ==
    [exists |-> TRUE, storybookPath |-> storybookPath,
     componentsPath |-> componentsPath, registryPath |-> registryPath]

\* the configuration initialize builds from its options and the detected paths
InitialConfig(options_, detectedPaths) ==
    ConfigFile(FirstGiven(options_.storybookPath, detectedPaths.storybook, "./src/stories"),
               FirstGiven(options_.componentsPath, detectedPaths.components,
                          "./src/components"),
               FirstGiven(options_.outputPath, "", "./registry"))

\* the refusal ignores options.force
RefusesWheneverConfigExists(force, existing) == existing.exists

\* `!options.force && await fs.pathExists(configPath)`
RefusesExistingConfig(force, existing) == ~force /\ existing.exists

\* initialize(options) in a directory holding `existing` as
\* storybook-sync.config.json; writeFails tells whether writeJsonFile throws
InitializeInit ==
    /\ callee = "initialize"
    /\ args \in [options : [force : BOOLEAN,
                            storybookPath : {"", "./custom-stories"},
                            componentsPath : {"", "./custom-components"},
                            outputPath : {"", "./custom-registry"}],
                 existing : {NoFile,
                             ConfigFile("./stories", "./components", "./out"),
                             ConfigFile("./src/stories", "./src/components", "./registry")},
                 detectedPaths : [storybook : {"", "./stories"},
                                  components : {"", "./src/components"}],
                 writeFails : BOOLEAN]
    /\ returned = <<>>
    /\ callPc = "run"

CallInitialize ==
    /\ callPc = "run"
    /\ callee = "initialize"
    /\ returned' =
          IF RefusesExistingConfig(args.options.force, args.existing)
          THEN [kind |-> "threw", code |-> "CONFIG_EXISTS", configFile |-> args.existing]
          ELSE IF args.writeFails
          THEN [kind |-> "threw", code |-> "EACCES", configFile |-> args.existing]
          ELSE [kind |-> "returned", code |-> "",
                configFile |-> InitialConfig(args.options, args.detectedPaths)]
    /\ callPc' = "done"
    /\ UNCHANGED <<callee, args>>

\* analyzeComponents(storyFiles); threw[i]: analyzeComponent throws for file i
AnalyzeInit ==
    /\ callee = "analyzeComponents"
    /\ \E batch \in ParsedBatches :
          args \in [storyFiles : {batch}, threw : [DOMAIN batch -> BOOLEAN]]
    /\ returned = <<>>
    /\ callPc = "run"

CallAnalyzeComponents ==
    /\ callPc = "run"
    /\ callee = "analyzeComponents"
    /\ returned' = analyzeComponents(args.storyFiles, args.threw)
    /\ callPc' = "done"
    /\ UNCHANGED <<callee, args>>

\* Bound of the number of stories whose args are merged
MaxStories == 2

\* the objects over the prop names a and b, each name given one of `values`
ObjectsOver(values) ==
    {NoObject, Object(<<>>)}
    \cup {Object(<<[name |-> name, value |-> v]>>) : name \in {"a", "b"}, v \in values}
    \cup {Object(<<[name |-> "a", value |-> v], [name |-> "b", value |-> w]>>) :
             v \in values, w \in values}

\* argTypes entries: a non-object, an object without a type, a full object
ArgTypeValues ==
    {[k |-> "string", type |-> "", description |-> "", required |-> FALSE],
     [k |-> "object", type |-> "", description |-> "d", required |-> FALSE],
     [k |-> "object", type |-> "boolean", description |-> "d", required |-> TRUE]}

PropsInit ==
    /\ callee = "analyzeProps"
    /\ args \in [metaArgs : ObjectsOver({NumberValue}),
                 storyArgs : SeqsUpTo(ObjectsOver({Text(<<"x">>), NumberValue}), MaxStories),
                 argTypes : ObjectsOver(ArgTypeValues)]
    /\ returned = <<>>
    /\ callPc = "run"

CallAnalyzeProps ==
    /\ callPc = "run"
    /\ callee = "analyzeProps"
    /\ returned' = analyzeProps(args.metaArgs, args.storyArgs, args.argTypes)
    /\ callPc' = "done"
    /\ UNCHANGED <<callee, args>>

\* Bound of the number of stories analyzeQuality counts
MaxQualityStories == 6

\* a story description needs a story
QualityInputs ==
    {q \in [hasTitle : BOOLEAN, hasDocsDescription : BOOLEAN, storyDescribed : BOOLEAN,
            argTypes : {"absent", "empty", "some"},
            storyCount : 0..MaxQualityStories,
            score : {0, 80, 81, 100}] :
        q.storyDescribed => q.storyCount > 0}

QualityInit ==
    /\ callee = "analyzeQuality"
    /\ args \in QualityInputs
    /\ returned = <<>>
    /\ callPc = "run"

CallAnalyzeQuality ==
    /\ callPc = "run"
    /\ callee = "analyzeQuality"
    /\ returned' = [scores |-> QualityScores(args), issues |-> QualityIssues(args)]
    /\ callPc' = "done"
    /\ UNCHANGED <<callee, args>>

\* Bound of the number of files handed to determineComponentType
MaxTypeFiles == 4

\* file paths with one marker, with two, and with none
MarkerPaths ==
    {<<"u", "s", "e">>, <<"l", "i", "b">>, <<"u", "i">>, <<"s", "r", "c">>,
     <<"h", "o", "o", "k", "/", "u", "i">>,
     <<"u", "t", "i", "l", "/", "u", "s", "e">>}

ComponentTypeInit ==
    /\ callee = "determineComponentType"
    /\ args \in [score : {0, 70, 71, 100}, files : SeqsUpTo(MarkerPaths, MaxTypeFiles)]
    /\ returned = <<>>
    /\ callPc = "run"

CallDetermineComponentType ==
    /\ callPc = "run"
    /\ callee = "determineComponentType"
    /\ returned' = determineComponentType(args.score, args.files)
    /\ callPc' = "done"
    /\ UNCHANGED <<callee, args>>

-----------------------------------------------------------------------------
(* Specifications                                                           *)

vars == <<cycleVars, depVars, cxVars, tyVars, scVars, callVars, pipeVars>>

DepNext ==
    \/ AnalyzeDependencyStep /\ UNCHANGED <<cycleVars, cxVars, tyVars, scVars, callVars, pipeVars>>
    \/ AnalyzeDependenciesReturn /\ UNCHANGED <<cycleVars, cxVars, tyVars, scVars, callVars, pipeVars>>

InitDeps == DepInit /\ CycleIdle /\ CxIdle /\ TyIdle /\ ScIdle /\ CallIdle /\ PipelineIdle

SpecDeps == InitDeps /\ [][DepNext]_vars

CycleNext ==
    \/ CycleOuterStep /\ UNCHANGED <<depVars, cxVars, tyVars, scVars, callVars, pipeVars>>
    \/ CycleDepStep /\ UNCHANGED <<depVars, cxVars, tyVars, scVars, callVars, pipeVars>>
    \/ CycleReturnStep /\ UNCHANGED <<depVars, cxVars, tyVars, scVars, callVars, pipeVars>>
    \/ CycleFinish /\ UNCHANGED <<depVars, cxVars, tyVars, scVars, callVars, pipeVars>>

InitCycles == CycleInit /\ DepIdle /\ CxIdle /\ TyIdle /\ ScIdle /\ CallIdle /\ PipelineIdle

SpecCycles == InitCycles /\ [][CycleNext]_vars

\* findCircularDependencies is synchronous: once called it runs every step
\* it can take
SpecCyclesFair == InitCycles /\ [][CycleNext]_vars /\ WF_vars(CycleNext)

CxNext == AnalyzeComplexity /\ UNCHANGED <<cycleVars, depVars, tyVars, scVars, callVars, pipeVars>>

InitComplexity == CxInit /\ CycleIdle /\ DepIdle /\ TyIdle /\ ScIdle /\ CallIdle /\ PipelineIdle

SpecComplexity == InitComplexity /\ [][CxNext]_vars

TyNext == DetermineItemType /\ UNCHANGED <<cycleVars, depVars, cxVars, scVars, callVars, pipeVars>>

InitItemType == TyInit /\ CycleIdle /\ DepIdle /\ CxIdle /\ ScIdle /\ CallIdle /\ PipelineIdle

SpecItemType == InitItemType /\ [][TyNext]_vars

ScNext == SafeParse /\ UNCHANGED <<cycleVars, depVars, cxVars, tyVars, callVars, pipeVars>>

InitSchema == ScInit /\ CycleIdle /\ DepIdle /\ CxIdle /\ TyIdle /\ CallIdle /\ PipelineIdle

SpecSchema == InitSchema /\ [][ScNext]_vars

RestOfCall == UNCHANGED <<cycleVars, depVars, cxVars, tyVars, scVars, pipeVars>>

KebabNext == CallKebabCase /\ RestOfCall

InitKebab ==
    KebabInit /\ CycleIdle /\ DepIdle /\ CxIdle /\ TyIdle /\ ScIdle /\ PipelineIdle

SpecKebab == InitKebab /\ [][KebabNext]_vars

GenerateNext == CallGenerateRegistry /\ RestOfCall

InitGenerate ==
    GenerateInit /\ CycleIdle /\ DepIdle /\ CxIdle /\ TyIdle /\ ScIdle /\ PipelineIdle

SpecGenerate == InitGenerate /\ [][GenerateNext]_vars

ItemNext == CallGenerateRegistryItem /\ RestOfCall

InitItem ==
    ItemInit /\ CycleIdle /\ DepIdle /\ CxIdle /\ TyIdle /\ ScIdle /\ PipelineIdle

SpecItem == InitItem /\ [][ItemNext]_vars

ParseNext == CallParseSourceFile /\ RestOfCall

InitParse ==
    ParseInit /\ CycleIdle /\ DepIdle /\ CxIdle /\ TyIdle /\ ScIdle /\ PipelineIdle

SpecParse == InitParse /\ [][ParseNext]_vars

ComponentTypeNext == CallDetermineComponentType /\ RestOfCall

InitComponentType ==
    ComponentTypeInit /\ CycleIdle /\ DepIdle /\ CxIdle /\ TyIdle /\ ScIdle /\ PipelineIdle

SpecComponentType == InitComponentType /\ [][ComponentTypeNext]_vars

QualityNext == CallAnalyzeQuality /\ RestOfCall

InitQuality ==
    QualityInit /\ CycleIdle /\ DepIdle /\ CxIdle /\ TyIdle /\ ScIdle /\ PipelineIdle

SpecQuality == InitQuality /\ [][QualityNext]_vars

PropsNext == CallAnalyzeProps /\ RestOfCall

InitProps ==
    PropsInit /\ CycleIdle /\ DepIdle /\ CxIdle /\ TyIdle /\ ScIdle /\ PipelineIdle

SpecProps == InitProps /\ [][PropsNext]_vars

AnalyzeNext == CallAnalyzeComponents /\ RestOfCall

InitAnalyze ==
    AnalyzeInit /\ CycleIdle /\ DepIdle /\ CxIdle /\ TyIdle /\ ScIdle /\ PipelineIdle

SpecAnalyze == InitAnalyze /\ [][AnalyzeNext]_vars

InitializeNext == CallInitialize /\ RestOfCall

InitInitialize ==
    InitializeInit /\ CycleIdle /\ DepIdle /\ CxIdle /\ TyIdle /\ ScIdle /\ PipelineIdle

SpecInitialize == InitInitialize /\ [][InitializeNext]_vars

ExportNext ==
    \/ ParseStoryFilesStep /\ UNCHANGED <<cycleVars, depVars, cxVars, tyVars, scVars, callVars>>
    \/ ExportParsed /\ UNCHANGED <<cycleVars, depVars, cxVars, tyVars, scVars, callVars>>
    \/ ExportAnalyze /\ UNCHANGED <<cycleVars, depVars, cxVars, tyVars, scVars, callVars>>
    \/ ExportWriteAndReturn /\ UNCHANGED <<cycleVars, depVars, cxVars, tyVars, scVars, callVars>>

InitExport == ExportInit /\ CycleIdle /\ DepIdle /\ CxIdle /\ TyIdle /\ ScIdle /\ CallIdle

SpecExport == InitExport /\ [][ExportNext]_vars

IdleRest == UNCHANGED <<cycleVars, depVars, cxVars, tyVars, scVars, callVars>>

Next ==
    \/ ParseStoryFilesStep /\ IdleRest
    \/ ParseStoryFilesReturn /\ IdleRest
    \/ SyncDiscover /\ IdleRest
    \/ SyncParseFile /\ IdleRest
    \/ SyncParseCheck /\ IdleRest
    \/ SyncAnalyze /\ IdleRest
    \/ SyncGenerateAndWrite /\ IdleRest
    \/ SyncGenerateExamples /\ IdleRest
    \/ SyncValidateAndReturn /\ IdleRest

Init == PipelineInit /\ CycleIdle /\ DepIdle /\ CxIdle /\ TyIdle /\ ScIdle /\ CallIdle

Spec == Init /\ [][Next]_vars

-----------------------------------------------------------------------------
(* Properties of findCircularDependencies                                   *)

\* u imports v: an internal record of u's list resolves to v
InternalEdge(u, v) ==
    \E i \in DOMAIN GraphGet(graph, u) :
        GraphGet(graph, u)[i].type = "internal" /\ GraphGet(graph, u)[i].path = v

\* v is reached from u along one or more internal edges
Reaches(u, v) ==
    \E p \in SeqsUpTo(Files, Cardinality(Files)) :
        /\ Len(p) >= 1
        /\ InternalEdge(u, p[1])
        /\ p[Len(p)] = v
        /\ \A i \in 1..(Len(p) - 1) : InternalEdge(p[i], p[i + 1])

InternalSubgraphCyclic == \E f \in Files : Reaches(f, f)

\* C5: findCircularDependencies returns no cycle when the internal-only
\* subgraph is acyclic, and at least one non-empty cycle when it has a cycle;
\* records of type npm or registry never make an edge.
C5_CyclesIffInternalCycle ==
    cyPc = "done" =>
        /\ ~InternalSubgraphCyclic => cycles = <<>>
        /\ InternalSubgraphCyclic =>
              /\ cycles # <<>>
              /\ \E i \in DOMAIN cycles : cycles[i] # <<>>

\* a finished run on a graph where a and b import each other, a also holding
\* an npm record that carries a path
C5_Witness ==
    /\ cyPc = "done"
    /\ InternalEdge("a", "b")
    /\ InternalEdge("b", "a")
    /\ \E i \in DOMAIN graph.deps["a"] : graph.deps["a"][i].type = "npm"
    /\ cycles # <<>>

\* The import relation is a union of pairwise vertex-disjoint cycles: every
\* file imports at most one file, is imported by at most one file, and every
\* importing file lies on a cycle.
MadeOfDisjointCycles ==
    /\ \A u \in Files : Cardinality({v \in Files : InternalEdge(u, v)}) <= 1
    /\ \A v \in Files : Cardinality({u \in Files : InternalEdge(u, v)}) <= 1
    /\ \A u \in Files : (\E v \in Files : InternalEdge(u, v)) => Reaches(u, u)

\* the vertex sets of the import cycles
ImportCycles == {{v \in Files : Reaches(u, v)} : u \in {w \in Files : Reaches(w, w)}}

\* C6: on a graph made of k pairwise vertex-disjoint internal import cycles
\* findCircularDependencies returns exactly k cycles, each listing exactly the
\* files of one of those cycles, once each.
C6_ExactlyOneCyclePerImportCycle ==
    (cyPc = "done" /\ MadeOfDisjointCycles) =>
        /\ Len(cycles) = Cardinality(ImportCycles)
        /\ \A i \in DOMAIN cycles :
              /\ Range(cycles[i]) \in ImportCycles
              /\ Len(cycles[i]) = Cardinality(Range(cycles[i]))
        /\ \A c \in ImportCycles : \E i \in DOMAIN cycles : Range(cycles[i]) = c

-----------------------------------------------------------------------------
(* Properties of analyzeDependency                                          *)

InFrameworkNs(s) ==
    /\ Len(s) >= Len(StorybookNs)
    /\ \A i \in DOMAIN StorybookNs : s[i] = StorybookNs[i]

\* the outcome the lexical form of s calls for, the cases taken in order
LexicalClass(s) ==
    IF InFrameworkNs(s) THEN "dropped"
    ELSE IF Len(s) >= 1 /\ s[1] = "." THEN "internal"
    ELSE IF (Len(s) >= 1 /\ s[1] = "@") \/ (\A i \in DOMAIN s : s[i] # "/") THEN "npm"
    ELSE "registry"

\* what became of the specifier s
Outcomes(s) ==
    {d.type : d \in {e \in Range(dependencies) : e.name = s}}
        \cup (IF s \in Range(dropped) THEN {"dropped"} ELSE {})

\* C7: every analysed specifier has exactly one of the four outcomes dropped,
\* internal, npm, registry, the one its lexical form calls for, and no
\* specifier of the framework namespace is in the returned list.
C7_ClassificationIsPartition ==
    depPc # "idle" =>
        /\ \A i \in 1..(impIdx - 1) : Outcomes(imports[i]) = {LexicalClass(imports[i])}
        /\ \A i \in DOMAIN dependencies : ~InFrameworkNs(dependencies[i].name)
        /\ Len(dependencies) + Len(dropped) = impIdx - 1

\* a framework specifier was analysed and dropped
C7_Witness ==
    /\ depPc = "done"
    /\ Len(imports) = 1
    /\ InFrameworkNs(imports[1])
    /\ dropped = imports
    /\ dependencies = <<>>

-----------------------------------------------------------------------------
(* Properties of analyzeComplexity                                          *)

\* 10*fileCount + min(lineCount,1000)/10 + 5*dependencyCount + 2*propCount
\* + 3*storyCount, clamped to [0,100], in tenths
ClampedSumTenths(c) ==
    LET lines == IF c.lineCount < LineCountCap THEN c.lineCount ELSE LineCountCap
        sum == (100 * c.fileCount) + lines + (50 * c.dependencyCount)
               + (20 * c.propCount) + (30 * c.storyCount)
    IN IF sum < 0 THEN 0 ELSE IF sum > 1000 THEN 1000 ELSE sum

\* the steps by which an input is raised
Raises == 1..(2 * MaxLines)

\* C8: the score is the clamped weighted sum rounded to an integer, lies in
\* [0,100], and raising any one of the five inputs never lowers it.
C8_ScoreClampedAndMonotonic ==
    cxPc = "done" =>
        LET c == complexity IN
        /\ (10 * c.score) - ClampedSumTenths(c) \in -5..5
        /\ c.score \in 0..100
        /\ \A d \in Raises :
              /\ ComplexityScore(c.fileCount + d, c.lineCount, c.dependencyCount,
                                 c.propCount, c.storyCount) >= c.score
              /\ ComplexityScore(c.fileCount, c.lineCount + d, c.dependencyCount,
                                 c.propCount, c.storyCount) >= c.score
              /\ ComplexityScore(c.fileCount, c.lineCount, c.dependencyCount + d,
                                 c.propCount, c.storyCount) >= c.score
              /\ ComplexityScore(c.fileCount, c.lineCount, c.dependencyCount,
                                 c.propCount + d, c.storyCount) >= c.score
              /\ ComplexityScore(c.fileCount, c.lineCount, c.dependencyCount,
                                 c.propCount, c.storyCount + d) >= c.score

\* an analysis whose weighted sum exceeds 100 and whose line count exceeds 1000
C8_Witness ==
    /\ cxPc = "done"
    /\ complexity.lineCount > LineCountCap
    /\ complexity.fileCount = 2
    /\ complexity.score = 100

-----------------------------------------------------------------------------
(* Properties of determineItemType                                          *)

\* the value the rule's condition is about, no analysis being at hand
MeasuredWithoutAnalysis(rule) ==
    CASE rule.condition = "fileCount" -> 1
      [] rule.condition = "complexity" -> 0
      [] rule.condition = "dependencies" -> Len(tyStoryFile.dependencies)
      [] OTHER -> -1

\* rule i matches the file path and its threshold condition, if it has one, holds
RuleApplies(i) ==
    /\ matchesPattern(tyStoryFile.filePath, tyRules[i].pattern)
    /\ (tyRules[i].condition # "" /\ tyRules[i].hasThreshold) =>
          MeasuredWithoutAnalysis(tyRules[i]) >= tyRules[i].threshold

\* C9: the analyzer-derived type when an analysis is supplied; otherwise the
\* type of the first rule, in configured order, that matches the path and
\* whose threshold condition holds; otherwise registry:component.
C9_FirstMatchingRuleWins ==
    tyPc = "done" =>
        IF tyAnalysis.present
        THEN tyResult = tyAnalysis.type
        ELSE IF \E i \in DOMAIN tyRules : RuleApplies(i)
        THEN \E i \in DOMAIN tyRules :
                /\ RuleApplies(i)
                /\ \A j \in 1..(i - 1) : ~RuleApplies(j)
                /\ tyResult = tyRules[i].type
        ELSE tyResult = "registry:component"

\* two rules of different types both apply and the earlier one's type is returned
C9_Witness ==
    /\ tyPc = "done"
    /\ ~tyAnalysis.present
    /\ Len(tyRules) = 2
    /\ RuleApplies(1)
    /\ RuleApplies(2)
    /\ tyRules[1].type # tyRules[2].type
    /\ tyResult = tyRules[1].type

-----------------------------------------------------------------------------
(* Properties of RegistryItemSchema                                         *)

MissingRequiredField ==
    \/ scItem.name.k = "undefined"
    \/ scItem.type.k = "undefined"
    \/ scItem.title.k = "undefined"
    \/ scItem.description.k = "undefined"
    \/ scItem.files.k = "undefined"

TypeOutsideEnum == scItem.type.k = "string" /\ scItem.type.s \notin ItemTypes

EmptyFilesArray == scItem.files.k = "array" /\ scItem.files.elems = <<>>

\* C10: validation of a registry item fails whenever its files array is
\* empty, whatever the other fields hold, and fails as well when a required
\* field is missing or the type is outside the enum.
C10_EmptyFilesRejected ==
    scPc = "done" =>
        /\ EmptyFilesArray => scResult = "failure"
        /\ MissingRequiredField => scResult = "failure"
        /\ TypeOutsideEnum => scResult = "failure"

-----------------------------------------------------------------------------
(* Properties of parseStoryFiles and sync                                   *)

Parses(path) == parseStoryFileSucceeds(path, tsIsExportEquals)

\* the paths of the batch that parse and those that do not, in input order
ParsingPaths == SelectSeq(storyFiles, Parses)
FailingPaths == SelectSeq(storyFiles, LAMBDA path : ~Parses(path))

ParseResultsOf(paths) ==
    [i \in DOMAIN paths |-> parseStoryFile(paths[i], tsIsExportEquals)]
ParseErrorsOf(paths) ==
    [i \in DOMAIN paths |-> [code |-> "PARSE_ERROR", file |-> paths[i]]]

ParseStoryFilesDone == op = "parseStoryFiles" /\ pc = "done"
SyncDone == op = "sync" /\ pc = "done"

\* C1: parseStoryFiles, for a batch in which at least one file parses,
\* returns exactly the results of the files that parse, in input order; every
\* file is attempted whatever happened to the files before it; and the call
\* throws PARSE_ALL_FAILED only when no file parses.
C1_BatchParseIsolatesFailures ==
    ParseStoryFilesDone =>
        /\ Len(results) + Len(errors) = Len(storyFiles)
        /\ ParsingPaths # <<>> =>
              /\ outcome.kind = "returned"
              /\ results = ParseResultsOf(ParsingPaths)
        /\ outcome.kind = "threw" =>
              /\ ParsingPaths = <<>>
              /\ outcome.code = "PARSE_ALL_FAILED"

\* a batch of an invalid file followed by a valid one returns one result
C1_Witness ==
    /\ ParseStoryFilesDone
    /\ Len(storyFiles) = 2
    /\ ~Parses(storyFiles[1])
    /\ Parses(storyFiles[2])
    /\ outcome.kind = "returned"
    /\ Len(results) = 1
    /\ Len(errors) = 1

HasDefaultExport(path) ==
    \E i \in DOMAIN ReadFile(path).statements :
        ReadFile(path).statements[i].kind = "exportDefault"

\* C2: a story file without a default export is rejected by the parser, and
\* a sync over such a file and a valid file, its output being writable,
\* succeeds with a non-empty errors list and a positive error count.
C2_NoDefaultExportRejected ==
    /\ ParseStoryFilesDone =>
          \A i \in DOMAIN storyFiles :
              ~HasDefaultExport(storyFiles[i]) =>
                  \E e \in DOMAIN errors : errors[e].file = storyFiles[i]
    /\ (/\ SyncDone
        /\ ioFailure = "none"
        /\ ZString(options.registryName)
        /\ Len(storyFiles) = 2
        /\ \E i, j \in DOMAIN storyFiles :
              /\ ~HasDefaultExport(storyFiles[i])
              /\ HasDefaultExport(storyFiles[j])
              /\ Parses(storyFiles[j]))
       => /\ outcome.success
          /\ outcome.errors # <<>>
          /\ stats.errorsCount > 0

\* C3 as stated: success whenever an item was generated, and every parse
\* error of the run in the errors returned.
C3_SuccessWheneverItemGenerated ==
    SyncDone =>
        /\ registryItems # <<>> => outcome.success
        /\ \A i \in DOMAIN parseErrors :
              \E e \in DOMAIN outcome.errors : outcome.errors[e] = parseErrors[i]

\* the run meets a fatal error: no file of a non-empty batch parses, or the
\* file system refuses an output step that the run takes
FatalRun ==
    \/ ioFailure = "discover"
    \/ /\ storyFiles # <<>>
       /\ \/ ParsingPaths = <<>>
          \/ ~ZString(options.registryName)
          \/ ioFailure = "write"
          \/ ioFailure = "examples" /\ options.generateExamples

\* C3 amended: sync never throws; it reports success exactly when the run
\* meets no fatal error, whether or not an item was generated, and then
\* returns every per-file parse error, in input order; a fatal error, also
\* one after items were generated, gives success=false with that error in
\* the errors returned.
C3_SuccessIffNoFatalError ==
    SyncDone =>
        /\ outcome.kind = "returned"
        /\ outcome.success <=> ~FatalRun
        /\ (outcome.success /\ storyFiles # <<>>) =>
              /\ outcome.hasErrors
              /\ outcome.errors = ParseErrorsOf(FailingPaths)
        /\ ~outcome.success =>
              /\ outcome.items = <<>>
              /\ \E e \in DOMAIN outcome.errors :
                    outcome.errors[e].code =
                        IF ioFailure = "discover" THEN "DISCOVERY_ERROR"
                        ELSE IF ParsingPaths = <<>> THEN "PARSE_ALL_FAILED"
                        ELSE IF ~ZString(options.registryName)
                        THEN "REGISTRY_VALIDATION_ERROR"
                        ELSE "EACCES"

\* a run with a parse failure and a generated item succeeds and returns the
\* parse error
C3_Witness ==
    /\ SyncDone
    /\ outcome.success
    /\ outcome.items # <<>>
    /\ Len(outcome.errors) = 1
    /\ outcome.errors[1].code = "PARSE_ERROR"

Degraded(analysis) == analysis.files = <<>>

\* C4 as stated: each batch stage aborts exactly when none of its items
\* succeeded. The run is past a stage only with a success in it, and
\* parseStoryFiles throws exactly when it has no result.
C4_EveryStageAbortsOnZero ==
    /\ ParseStoryFilesDone => (outcome.kind = "threw" <=> results = <<>>)
    /\ (op = "sync" /\ pc = "analyze") => parsedFiles # <<>>
    /\ (op = "sync" /\ pc = "generate") =>
          \E i \in DOMAIN analyses : ~Degraded(analyses[i])
    /\ (op = "sync" /\ pc \in {"examples", "return"}) => registryItems # <<>>

\* C4 amended: only the parse stage has a "nothing succeeded" abort.
\* parseStoryFiles throws exactly when the batch is non-empty and no file
\* parses; sync fails with PARSE_ALL_FAILED exactly when its batch is
\* non-empty and no file parses; analysis yields one analysis per parsed file
\* whatever failed, and assembly proceeds with the items it has, also with
\* none. No stage aborts because of one item while another succeeds.
C4_OnlyParseStageAborts ==
    /\ ParseStoryFilesDone =>
          (outcome.kind = "threw" <=> (storyFiles # <<>> /\ ParsingPaths = <<>>))
    /\ SyncDone =>
          ((\E e \in DOMAIN outcome.errors : outcome.errors[e].code = "PARSE_ALL_FAILED")
              <=> (storyFiles # <<>> /\ ParsingPaths = <<>>))
    /\ (op = "sync" /\ pc \in {"generate", "examples", "return"}) =>
          /\ parsedFiles = ParseResultsOf(ParsingPaths)
          /\ Len(analyses) = Len(parsedFiles)
    /\ (SyncDone /\ ParsingPaths # <<>> /\ ~FatalRun) =>
          /\ outcome.success
          /\ Len(analyses) = Len(ParsingPaths)
          /\ outcome.items = registryItems

\* a run succeeds although every analysis failed and no item was assembled
C4_Witness ==
    /\ SyncDone
    /\ outcome.success
    /\ FailingPaths # <<>>
    /\ analyses # <<>>
    /\ \A i \in DOMAIN analyses : Degraded(analyses[i])
    /\ registryItems = <<>>

-----------------------------------------------------------------------------
(* Properties of kebabCase                                                  *)

RECURSIVE Flatten(_)
Flatten(pieces) ==
    IF pieces = <<>> THEN <<>> ELSE Head(pieces) \o Flatten(Tail(pieces))

\* what character i of str contributes: a separator contributes one hyphen
\* where its run starts; any other character its lowercase form, followed by
\* a hyphen when it is a lowercase letter with an uppercase letter next
KebabPiece(str, i) ==
    IF str[i] \in {" ", "_"}
    THEN IF i > 1 /\ str[i - 1] \in {" ", "_"} THEN <<>> ELSE <<"-">>
    ELSE <<LowerChar(str[i])>>
         \o (IF IsLower(str[i]) /\ i < Len(str) /\ IsUpper(str[i + 1])
             THEN <<"-">> ELSE <<>>)

HyphenatedAtBoundaries(str) == Flatten([i \in DOMAIN str |-> KebabPiece(str, i)])

\* C13: kebabCase is idempotent, its output holds no uppercase letter, space
\* or underscore, and a hyphen stands at every lowercase-uppercase boundary
\* and in place of every run of spaces or underscores.
C13_KebabCaseIdempotentAndHyphenated ==
    (callee = "kebabCase" /\ callPc = "done") =>
        /\ kebabCase(returned) = returned
        /\ \A i \in DOMAIN returned :
              ~IsUpper(returned[i]) /\ returned[i] \notin {" ", "_"}
        /\ returned = HyphenatedAtBoundaries(args)

\* an input with a lowercase-uppercase boundary and a run of two separators
C13_Witness ==
    /\ callee = "kebabCase"
    /\ callPc = "done"
    /\ args = <<"a", "B", "_", " ">>
    /\ returned = <<"a", "-", "b", "-">>


-----------------------------------------------------------------------------
(* Properties of generateRegistry                                           *)

GenerateDone == callee = "generateRegistry" /\ callPc = "done"

\* C11: the names of the items of a returned registry are pairwise distinct.
C11_ItemNamesDistinct ==
    (GenerateDone /\ returned.kind = "returned") =>
        \A i, j \in DOMAIN returned.items :
            i # j => returned.items[i].name # returned.items[j].name

\* file i of the batch yields an item: it is assembled and passes validation
YieldsItem(i) ==
    generateRegistryItemOutcome(args.storyFiles[i], args.analyses[i]) = "item"

\* the positions of the batch that yield an item, in input order
YieldingPositions ==
    SelectSeq([i \in DOMAIN args.storyFiles |-> i], YieldsItem)

\* C12: a file whose item assembly or validation fails is left out while the
\* items of all other files are included in input order; a failing registry
\* schema check throws REGISTRY_VALIDATION_ERROR and returns no registry; an
\* empty batch gives zero items under the configured name, one valid file
\* gives exactly one item.
C12_FailingItemsSkippedRegistryCheckFatal ==
    GenerateDone =>
        IF ZString(args.registryName)
        THEN /\ returned.kind = "returned"
             /\ returned.name = args.registryName
             /\ Len(returned.items) = Len(YieldingPositions)
             /\ \A n \in DOMAIN returned.items :
                   returned.items[n] = BuildItem(args.storyFiles[YieldingPositions[n]],
                                                 args.analyses[YieldingPositions[n]])
             /\ args.storyFiles = <<>> => returned.items = <<>>
             /\ (Len(args.storyFiles) = 1 /\ YieldsItem(1)) => Len(returned.items) = 1
        ELSE /\ returned.kind = "threw"
             /\ returned.code = "REGISTRY_VALIDATION_ERROR"
             /\ returned.items = <<>>

\* the first file fails item validation, the second yields the only item
C12_Witness ==
    /\ GenerateDone
    /\ Len(args.storyFiles) = 2
    /\ args.storyFiles[1].filePath = ThemedStories.path
    /\ ~YieldsItem(1)
    /\ YieldsItem(2)
    /\ returned.kind = "returned"
    /\ Len(returned.items) = 1
    /\ returned.items[1].name = kebabCase(args.storyFiles[2].componentName)

-----------------------------------------------------------------------------
(* Properties of generateRegistryItem                                       *)

ItemDone == callee = "generateRegistryItem" /\ callPc = "done"

\* what follows the last '/' of a title
SegmentAfterLastSlash(title) ==
    LET slashes == {i \in DOMAIN title : title[i] = "/"}
    IN IF slashes = {} THEN title
       ELSE SubSeq(title, (CHOOSE i \in slashes : \A j \in slashes : j <= i) + 1,
                   Len(title))

\* the story file of the scenario: title Components/Button, component
\* Button, no docs description, no analysis, no matching type rule
ButtonScenario ==
    /\ args.storyFile.meta.title = Text(ComponentsButton)
    /\ args.storyFile.componentName = ButtonName
    /\ args.storyFile.meta.docsDescription = NoValue
    /\ args.analysis = AbsentAnalysis
    /\ args.storyFile.filePath = PlainPath

ButtonItemAsStated ==
    /\ returned.outcome = "item"
    /\ returned.item.name = <<"b", "u", "t", "t", "o", "n">>
    /\ returned.item.title = ButtonName
    /\ returned.item.type = "registry:component"
    /\ returned.item.description =
          <<"A", " ", "B", "u", "t", "t", "o", "n", " ",
            "c", "o", "m", "p", "o", "n", "e", "n", "t", ".">>

\* C14 as stated: the scenario's item, and in general the title is the last
\* '/'-separated segment of meta.title, else the Start-Case rendering of the
\* component name.
C14_TitleIsLastSegmentElseStartCase ==
    ItemDone =>
        /\ ButtonScenario => ButtonItemAsStated
        /\ returned.outcome = "item" =>
              IF Truthy(args.storyFile.meta.title)
              THEN returned.item.title \in
                      {SegmentAfterLastSlash(args.storyFile.meta.title.v),
                       startCase(args.storyFile.componentName)}
              ELSE returned.item.title = startCase(args.storyFile.componentName)

\* C14: the scenario's item; the title is the last '/'-separated segment of
\* a non-empty meta.title when that segment is not empty, the component
\* name as it stands when meta.title ends with '/', and the Start-Case
\* rendering of the component name when meta.title is absent or empty.
C14_TitleFromLastSegment ==
    ItemDone =>
        /\ ButtonScenario => ButtonItemAsStated
        /\ returned.outcome = "item" =>
              LET title == args.storyFile.meta.title
              IN IF ~Truthy(title)
                 THEN returned.item.title = startCase(args.storyFile.componentName)
                 ELSE IF SegmentAfterLastSlash(title.v) # <<>>
                 THEN returned.item.title = SegmentAfterLastSlash(title.v)
                 ELSE returned.item.title = args.storyFile.componentName
        /\ (returned.outcome = "item" /\ ~Truthy(args.storyFile.meta.title)
               /\ args.storyFile.componentName = IconBtnName) =>
              returned.item.title = <<"I", "c", "o", "n", " ", "B", "t", "n">>

\* the scenario's call has returned its item
C14_Witness ==
    /\ ItemDone
    /\ ButtonScenario
    /\ ButtonItemAsStated

-----------------------------------------------------------------------------
(* Properties of parseSourceFile                                            *)

ParseDone == callee = "parseSourceFile" /\ callPc = "done"

IsAlphaNumeric(c) == IsUpper(c) \/ IsLower(c) \/ c \in {"0", "1", "2", "3", "4", "5", "6", "7", "8", "9"}

\* the first match of [A-Z][a-zA-Z0-9]* in text, or UnknownComponent
FirstUpperCamelToken(text) ==
    LET starts == {i \in DOMAIN text : IsUpper(text[i])}
    IN IF starts = {}
       THEN <<"U", "n", "k", "n", "o", "w", "n", "C", "o", "m", "p", "o", "n", "e", "n", "t">>
       ELSE LET first == CHOOSE i \in starts : \A j \in starts : i <= j
                stops == {i \in first..Len(text) :
                             i = Len(text) \/ ~IsAlphaNumeric(text[i + 1])}
                last == CHOOSE i \in stops : \A j \in stops : i <= j
            IN SubSeq(text, first, last)

\* C15: a story file with a default-export meta that holds a component
\* reference and with at least one named story parses, and componentName is
\* the first upper-camel-case token of the reference's text, or
\* UnknownComponent when the text holds none.
C15_ComponentNameIsFirstUpperCamelToken ==
    (/\ ParseDone
     /\ args.component.kind \in {"identifier", "propertyAccess"}
     /\ args.storyCount > 0) =>
        /\ returned.kind = "parsed"
        /\ returned.file.componentName = FirstUpperCamelToken(args.component.text)

\* what parsing the same meta object, imports and stories in the other
\* shape gives
OtherShapeOutcome ==
    ParseOutcome(StorySource(MetaObject,
                             IF args.shape = "direct" THEN "binding" ELSE "direct",
                             args.storyCount),
                 args.isExportEquals)

\* C16: `export default {...M}` and `const meta = {...M}; export default
\* meta` both parse and give the same meta record, componentName and
\* componentPath.
C16_DefaultExportShapesEquivalent ==
    ParseDone =>
        /\ returned.kind = "parsed"
        /\ OtherShapeOutcome.kind = "parsed"
        /\ returned.file.meta = OtherShapeOutcome.file.meta
        /\ returned.file.componentName = OtherShapeOutcome.file.componentName
        /\ returned.file.componentPath = OtherShapeOutcome.file.componentPath

-----------------------------------------------------------------------------
(* Properties of export                                                     *)

ExportDone == op = "export" /\ pc = "done"

\* C17: when the output directory cannot be written, export resolves with
\* a result whose success is false and whose errors are defined; it does
\* not reject.
C17_ExportResolvesWithFailure ==
    (ExportDone /\ ioFailure = "write") =>
        /\ outcome.kind = "returned"
        /\ ~outcome.success
        /\ outcome.hasErrors

-----------------------------------------------------------------------------
(* Properties of the statistics of sync                                     *)

\* the story file parsed and named a component file that cannot be read
ComponentFileMissing(parsedFile) ==
    /\ parsedFile.componentPath # <<>>
    /\ ~ReadFile(parsedFile.filePath).componentFile.readable

\* C18: a sync over a story file that parses but whose imported component
\* file does not exist completes with success and with errorsCount > 0.
C18_MissingComponentCountedAsError ==
    (/\ SyncDone
     /\ ioFailure = "none"
     /\ ZString(options.registryName)
     /\ Len(storyFiles) = 1
     /\ Len(parsedFiles) = 1
     /\ ComponentFileMissing(parsedFiles[1])) =>
        /\ outcome.success
        /\ stats.errorsCount > 0

\* the quality issues of a type over all analyses, as (analysis, position)
IssuesOfType(type) ==
    {<<i, k>> \in (DOMAIN analyses) \X (1..5) :
        k \in DOMAIN analyses[i].issues /\ analyses[i].issues[k] = type}

\* C19: after a successful sync filesProcessed is the number of files
\* parsed, componentsGenerated the number of items of the returned registry,
\* errorsCount the parse failures plus the error issues, warningsCount the
\* warning issues; one valid story file gives 1 and 1.
C19_StatsCountFilesItemsAndIssues ==
    (SyncDone /\ outcome.success) =>
        /\ stats.filesProcessed = Len(ParsingPaths)
        /\ stats.componentsGenerated = Len(outcome.items)
        /\ stats.errorsCount = Len(FailingPaths) + Cardinality(IssuesOfType("error"))
        /\ stats.warningsCount = Cardinality(IssuesOfType("warning"))
        /\ (/\ Len(storyFiles) = 1
            /\ Parses(storyFiles[1])
            /\ generateRegistryItemOutcome(parsedFiles[1], analyses[1]) = "item") =>
              (stats.filesProcessed = 1 /\ stats.componentsGenerated = 1)

\* the sync over the one valid story file, validating and with examples
C19_Witness ==
    /\ SyncDone
    /\ outcome.success
    /\ storyFiles = <<ButtonStories.path>>
    /\ options = [DefaultOptions EXCEPT !.generateExamples = TRUE, !.validate = TRUE]
    /\ Len(outcome.items) = 1
    /\ stats.filesProcessed = 1
    /\ stats.componentsGenerated = 1
    /\ stats.warningsCount > 0

-----------------------------------------------------------------------------
(* Properties of initialize                                                 *)

InitializeDone == callee = "initialize" /\ callPc = "done"

\* the path written for an option: the option when given, else the detected
\* path, else the default
PathWritten(option, detected, default) ==
    CASE option # "" -> option
      [] option = "" /\ detected # "" -> detected
      [] OTHER -> default

\* C20: without force and with storybook-sync.config.json present,
\* initialize fails with CONFIG_EXISTS and leaves the file as it was; with
\* force, or with no file present, it writes the configuration file (the
\* file system permitting).
C20_InitializeRefusesToOverwriteWithoutForce ==
    InitializeDone =>
        IF ~args.options.force /\ args.existing.exists
        THEN /\ returned.kind = "threw"
             /\ returned.code = "CONFIG_EXISTS"
             /\ returned.configFile = args.existing
        ELSE /\ returned.code # "CONFIG_EXISTS"
             /\ ~args.writeFails =>
                   /\ returned.kind = "returned"
                   /\ returned.configFile.exists
                   /\ returned.configFile.storybookPath =
                         PathWritten(args.options.storybookPath,
                                     args.detectedPaths.storybook, "./src/stories")
                   /\ returned.configFile.componentsPath =
                         PathWritten(args.options.componentsPath,
                                     args.detectedPaths.components, "./src/components")
                   /\ returned.configFile.registryPath =
                         PathWritten(args.options.outputPath, "", "./registry")

\* a second init without force over a file that differs from what it would
\* write: refused, the file kept
C20_Witness ==
    /\ InitializeDone
    /\ ~args.options.force
    /\ args.existing = ConfigFile("./stories", "./components", "./out")
    /\ returned.code = "CONFIG_EXISTS"
    /\ returned.configFile = args.existing
    /\ InitialConfig(args.options, args.detectedPaths) # args.existing

-----------------------------------------------------------------------------
(* Properties of analyzeComponents                                          *)

AnalyzeDone == callee = "analyzeComponents" /\ callPc = "done"

AllQualityScoresZero(analysis) ==
    /\ analysis.quality.documentationScore = 0
    /\ analysis.quality.testCoverage = 0
    /\ analysis.quality.storyCompleteness = 0
    /\ analysis.quality.typeDefinitions = 0
    /\ analysis.quality.overallScore = 0

EmptyListsOneError(analysis) ==
    /\ analysis.dependencies = <<>>
    /\ analysis.files = <<>>
    /\ analysis.props = <<>>
    /\ analysis.stories = <<>>
    /\ analysis.issues = <<"error">>

\* C21 as stated: the analysis substituted for a file whose analysis threw
\* has every complexity measure and every score at zero, empty lists and
\* exactly one issue, an error; the other files are still analyzed.
C21_DegradedAnalysisAllZero ==
    AnalyzeDone =>
        \A i \in DOMAIN args.storyFiles :
            IF args.threw[i]
            THEN /\ returned[i].complexity = NoComplexity
                 /\ AllQualityScoresZero(returned[i])
                 /\ EmptyListsOneError(returned[i])
            ELSE returned[i] = analyzeComponent(args.storyFiles[i])

\* C21: the analysis substituted for a file whose analysis threw has line
\* count, prop count and every score at zero, file count 1, the dependency
\* and story counts of the story file, empty lists and exactly one issue,
\* an error; the other files are still analyzed.
C21_DegradedAnalysisKeepsCounts ==
    AnalyzeDone =>
        \A i \in DOMAIN args.storyFiles :
            IF args.threw[i]
            THEN /\ returned[i].complexity.lineCount = 0
                 /\ returned[i].complexity.propCount = 0
                 /\ returned[i].complexity.score = 0
                 /\ returned[i].complexity.fileCount = 1
                 /\ returned[i].complexity.dependencyCount =
                       Len(args.storyFiles[i].dependencies)
                 /\ returned[i].complexity.storyCount = Len(args.storyFiles[i].stories)
                 /\ AllQualityScoresZero(returned[i])
                 /\ EmptyListsOneError(returned[i])
            ELSE returned[i] = analyzeComponent(args.storyFiles[i])

\* the first file's analysis threw, the second file has its full analysis
C21_Witness ==
    /\ AnalyzeDone
    /\ Len(args.storyFiles) = 2
    /\ args.threw[1]
    /\ ~args.threw[2]
    /\ args.storyFiles[1].stories # <<>>
    /\ returned[1].complexity.storyCount = 1
    /\ returned[1].issues = <<"error">>
    /\ returned[2].files # <<>>

\* C27: analyzeComponents returns one analysis per story file, in input
\* order, whether or not analyses failed: analyses[i].name is
\* storyFiles[i].componentName.
C27_OneAnalysisPerStoryFile ==
    AnalyzeDone =>
        /\ Len(returned) = Len(args.storyFiles)
        /\ \A i \in DOMAIN args.storyFiles :
              returned[i].name = args.storyFiles[i].componentName

\* two files with different component names, the analysis of the first threw
C27_Witness ==
    /\ AnalyzeDone
    /\ Len(args.storyFiles) = 2
    /\ args.storyFiles[1].componentName # args.storyFiles[2].componentName
    /\ args.threw[1]
    /\ returned[2].name = args.storyFiles[2].componentName
    /\ returned[2].name # <<>>

-----------------------------------------------------------------------------
(* Properties of generateFiles                                              *)

\* C22: the files of an assembled item are exactly one component file
\* registry/default/<name>/<name>.tsx, followed by one index file
\* registry/default/<name>/index.ts when and only when the type is block;
\* so the files of a generated item are never empty.
C22_FilesHoldComponentFile ==
    (ItemDone /\ returned.outcome = "item") =>
        LET files == returned.item.files
            ofKind(kind) == {i \in DOMAIN files : files[i].path.kind = kind}
        IN /\ Cardinality(ofKind("component")) = 1
           /\ Cardinality(ofKind("index")) =
                 IF returned.item.type = "registry:block" THEN 1 ELSE 0
           /\ Len(files) = Cardinality(ofKind("component")) + Cardinality(ofKind("index"))
           /\ \A i \in DOMAIN files : files[i].path.dir = returned.item.name
           /\ files # <<>>

-----------------------------------------------------------------------------
(* Properties of analyzeProps                                               *)

PropsDone == callee = "analyzeProps" /\ callPc = "done"

Defines(object, name) == \E i \in DOMAIN object.entries : object.entries[i].name = name

ValueIn(object, name) ==
    object.entries[CHOOSE i \in DOMAIN object.entries : object.entries[i].name = name].value

\* the stories, by position, whose args define the name
StoriesDefining(name) == {n \in DOMAIN args.storyArgs : Defines(args.storyArgs[n], name)}

\* the default value the claim gives a name: the meta value, else the value
\* of the first story defining it, else none
DefaultValueOf(name) ==
    IF Defines(args.metaArgs, name) THEN ValueIn(args.metaArgs, name)
    ELSE IF StoriesDefining(name) # {}
    THEN ValueIn(args.storyArgs[CHOOSE n \in StoriesDefining(name) :
                                   \A m \in StoriesDefining(name) : n <= m], name)
    ELSE NoValue

\* C23: one PropInfo per distinct prop name; a name of the meta args keeps
\* the meta value as default whatever the stories say; a name absent from
\* the meta args takes the value of the first story defining it; an
\* argTypes entry overrides description and required, and the type when it
\* declares one, keeping the default value, or creates a new entry.
C23_PropsMergedByPrecedence ==
    PropsDone =>
        /\ \A i, j \in DOMAIN returned : i # j => returned[i].name # returned[j].name
        /\ PropNames(returned) =
              {name \in {"a", "b"} :
                  \/ Defines(args.metaArgs, name)
                  \/ StoriesDefining(name) # {}
                  \/ Defines(args.argTypes, name)}
        /\ \A i \in DOMAIN returned :
              LET prop == returned[i]
                  declared == Defines(args.argTypes, prop.name)
                             /\ ValueIn(args.argTypes, prop.name).k = "object"
              IN /\ prop.defaultValue = DefaultValueOf(prop.name)
                 /\ prop.type =
                       IF declared /\ ValueIn(args.argTypes, prop.name).type # ""
                       THEN ValueIn(args.argTypes, prop.name).type
                       ELSE IF prop.defaultValue # NoValue THEN prop.defaultValue.k
                       ELSE "unknown"
                 /\ prop.required =
                       (declared /\ ValueIn(args.argTypes, prop.name).required)
                 /\ prop.description =
                       IF declared THEN ValueIn(args.argTypes, prop.name).description
                       ELSE ""

\* a is in the meta args and in both stories with other values, b comes
\* from the second story only, and argTypes declares a
C23_Witness ==
    /\ PropsDone
    /\ Defines(args.metaArgs, "a")
    /\ ~Defines(args.metaArgs, "b")
    /\ Len(args.storyArgs) = 2
    /\ Defines(args.storyArgs[1], "a")
    /\ ValueIn(args.storyArgs[1], "a") = Text(<<"x">>)
    /\ StoriesDefining("b") = {2}
    /\ Defines(args.argTypes, "a")
    /\ ValueIn(args.argTypes, "a").type = "boolean"
    /\ Len(returned) = 2
    /\ returned[1].defaultValue = NumberValue
    /\ returned[1].type = "boolean"

-----------------------------------------------------------------------------
(* Properties of determineComponentType                                     *)

ComponentTypeDone == callee = "determineComponentType" /\ callPc = "done"

SomePathHas(word) == \E i \in DOMAIN args.files : Includes(args.files[i], word)

\* the rules in their order, each with the type it gives
ComponentTypeRules ==
    <<[holds |-> args.score > 70 \/ Len(args.files) > 3, type |-> "registry:block"],
      [holds |-> SomePathHas(<<"u", "s", "e">>) \/ SomePathHas(<<"h", "o", "o", "k">>),
       type |-> "registry:hook"],
      [holds |-> SomePathHas(<<"l", "i", "b">>) \/ SomePathHas(<<"u", "t", "i", "l">>),
       type |-> "registry:lib"],
      [holds |-> SomePathHas(<<"u", "i">>), type |-> "registry:ui"]>>

\* C24: the type is that of the earliest rule that holds, in the order
\* block, hook, lib, ui, and component when none holds; a score above 70
\* with a hook path is block, a path with hook and ui markers is hook.
C24_EarliestRuleGivesType ==
    ComponentTypeDone =>
        /\ \A k \in DOMAIN ComponentTypeRules :
              (ComponentTypeRules[k].holds /\ \A j \in 1..(k - 1) : ~ComponentTypeRules[j].holds)
                  => returned = ComponentTypeRules[k].type
        /\ (\A k \in DOMAIN ComponentTypeRules : ~ComponentTypeRules[k].holds)
              => returned = "registry:component"

\* a path with the hook and the ui markers, classified below the block
\* threshold
C24_Witness ==
    /\ ComponentTypeDone
    /\ args.score = 70
    /\ args.files = <<<<"s", "r", "c">>, <<"h", "o", "o", "k", "/", "u", "i">>>>
    /\ returned = "registry:hook"

-----------------------------------------------------------------------------
(* Properties of analyzeQuality                                             *)

QualityDone == callee = "analyzeQuality" /\ callPc = "done"

\* the integer nearest to sum / 4, halves upwards
IsRoundedMeanOfFour(n, sum) == (4 * n) - 2 <= sum /\ sum < (4 * n) + 2

\* C25: overallScore is the rounded mean of the four sub-scores, each in
\* 0..100, and the issues are exactly: a warning iff documentationScore < 50,
\* an error iff there are no stories, an info iff argTypes declares nothing,
\* a warning iff the complexity score is above 80.
C25_ScoresAndIssuesAsStated ==
    QualityDone =>
        LET scores == returned.scores
        IN /\ \A sub \in {scores.documentationScore, scores.testCoverage,
                           scores.storyCompleteness, scores.typeDefinitions} :
                 sub \in 0..100
           /\ IsRoundedMeanOfFour(scores.overallScore,
                                  scores.documentationScore + scores.testCoverage
                                  + scores.storyCompleteness + scores.typeDefinitions)
           /\ returned.issues =
                 (IF scores.documentationScore < 50 THEN <<"warning">> ELSE <<>>)
                 \o (IF args.storyCount = 0 THEN <<"error">> ELSE <<>>)
                 \o (IF args.argTypes # "some" THEN <<"info">> ELSE <<>>)
                 \o (IF args.score > 80 THEN <<"warning">> ELSE <<>>)

-----------------------------------------------------------------------------
(* Properties of generateExamples                                           *)

\* the positions of parsedFiles that produced an item, in order: item k of
\* the registry comes from the k-th of them
ItemOrigins ==
    SelectSeq([i \in DOMAIN parsedFiles |-> i],
              LAMBDA i : generateRegistryItemOutcome(parsedFiles[i], analyses[i]) = "item")

ExampleDocuments == SelectSeq(written, LAMBDA document : document.kind = "example")

\* C26: every item gets an example document, and the document of item k is
\* built from the parsed story file that produced item k.
C26_ExampleBuiltFromOwnStoryFile ==
    (op = "sync" /\ pc \in {"return", "done"} /\ options.generateExamples
     /\ ExampleDocuments # <<>>) =>
        /\ Len(ExampleDocuments) = Len(registryItems)
        /\ \A k \in DOMAIN ExampleDocuments :
              /\ ExampleDocuments[k].name = registryItems[k].name
              /\ ExampleDocuments[k].storyFile = parsedFiles[ItemOrigins[k]].filePath

-----------------------------------------------------------------------------
(* Properties of the catch block of sync                                    *)

\* the code of the first error the run meets, in the order of the steps
FirstFatalCode ==
    IF ioFailure = "discover" THEN "DISCOVERY_ERROR"
    ELSE IF ParsingPaths = <<>> THEN "PARSE_ALL_FAILED"
    ELSE IF ~ZString(options.registryName) THEN "REGISTRY_VALIDATION_ERROR"
    ELSE "EACCES"

\* C28: sync never rejects; a run that meets an exception at discovery,
\* parsing, registry generation, writing or example generation returns
\* success=false, the empty registry, no items, that one error and an
\* errorsCount of at least 1.
C28_SyncCatchesEveryException ==
    SyncDone =>
        /\ outcome.kind = "returned"
        /\ FatalRun =>
              /\ ~outcome.success
              /\ outcome.registry = EmptyRegistry
              /\ outcome.items = <<>>
              /\ outcome.errors = <<SyncError(FirstFatalCode, <<>>)>>
              /\ stats.errorsCount >= 1 + Len(FailingPaths)

\* every kind of exception is met: at discovery, when no file parses, at
\* the registry check, at the write, at the examples after the write
C28_Witness ==
    /\ SyncDone
    /\ ~outcome.success
    /\ ioFailure = "examples"
    /\ written # <<>>
    /\ outcome.errors = <<SyncError("EACCES", <<>>)>>
    /\ stats.errorsCount = 1

-----------------------------------------------------------------------------
(* Properties of generateAndWrite                                           *)

WrittenOfKind(kind) == {i \in DOMAIN written : written[i].kind = kind}

\* C29: in a sync run the registry document is written at most once and
\* only when the registry in memory passes RegistrySchema; when
\* generateRegistry throws nothing is written; the per-item files come
\* after the registry document and only if generateIndividualItems is set.
C29_RegistryWrittenOnceAfterCheck ==
    op = "sync" =>
        /\ Cardinality(WrittenOfKind("registry")) <= 1
        /\ WrittenOfKind("registry") # {} =>
              RegistryDocumentOk(options.registryName, registryItems)
        /\ (pc \in {"examples", "return", "done"} /\ parsedFiles # <<>>
            /\ ~RegistryDocumentOk(options.registryName, registryItems)) =>
              written = <<>>
        /\ \A i \in WrittenOfKind("item") :
              /\ options.generateIndividualItems
              /\ \E j \in WrittenOfKind("registry") : j < i

\* a run in which generateRegistry threw after an item was assembled, and
\* nothing was written
C29_Witness ==
    /\ SyncDone
    /\ registryItems # <<>>
    /\ ~ZString(options.registryName)
    /\ options.generateIndividualItems
    /\ outcome.errors = <<SyncError("REGISTRY_VALIDATION_ERROR", <<>>)>>
    /\ written = <<>>

-----------------------------------------------------------------------------
(* Termination of findCircularDependencies                                  *)

\* each listed file imports the next one and the last imports the first
GenuineCycle(cycle) ==
    /\ cycle # <<>>
    /\ \A k \in 1..(Len(cycle) - 1) : InternalEdge(cycle[k], cycle[k + 1])
    /\ InternalEdge(cycle[Len(cycle)], cycle[1])

ExpandsOnceCyclesGenuine ==
    /\ \A f \in Files : expanded[f] <= 1
    /\ \A i \in DOMAIN cycles : GenuineCycle(cycles[i])

\* C30: on every graph, with cycles, self-imports and internal edges to
\* files that are no key, findCircularDependencies returns; it expands each
\* file at most once and every cycle it records is a cycle of the internal
\* subgraph.
C30_TerminatesWithGenuineCycles ==
    /\ []ExpandsOnceCyclesGenuine
    /\ <>(cyPc = "done")

\* a finished run over the key a alone: a imports itself and b, b is no key
\* and is expanded once, and the self-import is the one cycle returned
C30_Witness ==
    /\ cyPc = "done"
    /\ graph.keys = <<"a">>
    /\ InternalEdge("a", "a")
    /\ InternalEdge("a", "b")
    /\ expanded["b"] = 1
    /\ cycles = <<<<"a">>>>

=============================================================================
